---- MODULE Spec2Model ----
(***************************************************************************)
(* Scraping/orchestration subsystem of encheres-immo: the job workflows of *)
(* ScrapingOrchestrator, the ProgressWriter and its progress / cancel      *)
(* files, the scrape_log and listings tables of Database, and the UI and   *)
(* CLI launchers.                                                          *)
(***************************************************************************)
EXTENDS Integers, Sequences, FiniteSets, TLC

\* ---------------------------------------------------------------- bounds
MaxLicitor == 2      \* licitor ids known to the site are 1..MaxLicitor
MaxSummaries == 2    \* listings yielded by one tribunal scrape
MaxFetches == 2      \* HTTP fetches one page walk performs for one item
MaxTicks == 3        \* tick() calls of a ProgressWriter client

\* ------------------------------------------------------- value encodings
Null == -1           \* SQL NULL / Python None of a numeric or date column
NoStatus == "none"   \* SQL NULL / Python None of result_status
NoSlug == "null"     \* SQL NULL of listings.tribunal_id
Today == 2           \* date('now'); dates are day numbers
Price == 100         \* a positive amount in euros
Surface == 50        \* a positive surface in m2
ProbeType == "surface_backfill"  \* the row _migrate inserts and deletes

LicitorIds == 1..MaxLicitor

\* ------------------------------------------------------------ the store
\* A row of the listings table (the columns the workflows read or write).
NewRow(s, tribunal_id, is_historical, auction_date) ==
    [ tribunal        |-> tribunal_id,
      is_historical   |-> is_historical,
      status          |-> IF is_historical THEN "past" ELSE "upcoming",
      auction_date    |-> auction_date,
      final_price     |-> s.final_price,
      result_status   |-> s.result_status,
      result_date     |-> s.result_date,
      mise_a_prix     |-> s.mise_a_prix,
      surface_m2      |-> Null,
      detail_scraped  |-> FALSE ]

\* An UPDATE branch that writes final_price whatever the summary holds.
MergeRow_writes_final_price(row, s, is_historical) ==
    [ row EXCEPT
        !.final_price   = s.final_price,
        !.result_status = IF s.result_status # NoStatus THEN s.result_status ELSE @,
        !.status        = IF s.result_status # NoStatus THEN "past" ELSE @,
        !.result_date   = IF s.result_date # Null THEN s.result_date ELSE @,
        !.is_historical = IF is_historical THEN TRUE ELSE @ ]

\* An UPDATE branch that leaves status alone.
MergeRow_keeps_status(row, s, is_historical) ==
    [ row EXCEPT
        !.final_price   = IF s.final_price # Null THEN s.final_price ELSE @,
        !.result_status = IF s.result_status # NoStatus THEN s.result_status ELSE @,
        !.result_date   = IF s.result_date # Null THEN s.result_date ELSE @,
        !.is_historical = IF is_historical THEN TRUE ELSE @ ]

\* An UPDATE branch that writes the is_historical argument as passed.
MergeRow_writes_is_historical(row, s, is_historical) ==
    [ row EXCEPT
        !.final_price   = IF s.final_price # Null THEN s.final_price ELSE @,
        !.result_status = IF s.result_status # NoStatus THEN s.result_status ELSE @,
        !.status        = IF s.result_status # NoStatus THEN "past" ELSE @,
        !.result_date   = IF s.result_date # Null THEN s.result_date ELSE @,
        !.is_historical = is_historical ]

\* An UPDATE branch that also refreshes the starting price of the summary.
MergeRow_writes_mise_a_prix(row, s, is_historical) ==
    [ row EXCEPT
        !.mise_a_prix   = s.mise_a_prix,
        !.final_price   = IF s.final_price # Null THEN s.final_price ELSE @,
        !.result_status = IF s.result_status # NoStatus THEN s.result_status ELSE @,
        !.status        = IF s.result_status # NoStatus THEN "past" ELSE @,
        !.result_date   = IF s.result_date # Null THEN s.result_date ELSE @,
        !.is_historical = IF is_historical THEN TRUE ELSE @ ]

\* The UPDATE branch of upsert_listing_summary, applied to the stored row.
MergeRow(row, s, is_historical) ==
    [ row EXCEPT
        !.final_price   = IF s.final_price # Null THEN s.final_price ELSE @,
        !.result_status = IF s.result_status # NoStatus THEN s.result_status ELSE @,
        !.status        = IF s.result_status # NoStatus THEN "past" ELSE @,
        !.result_date   = IF s.result_date # Null THEN s.result_date ELSE @,
        !.is_historical = IF is_historical THEN TRUE ELSE @ ]

get_tribunal_id(tribs, slug) == IF slug \in tribs THEN slug ELSE NoSlug

\* upsert_listing_summary: the store after the call.
upsert_listing_summary(store, tribs, s, tribunal_slug, is_historical, auction_date) ==
    IF s.licitor_id \in DOMAIN store
    THEN [store EXCEPT ![s.licitor_id] = MergeRow(@, s, is_historical)]
    ELSE [l \in DOMAIN store \cup {s.licitor_id} |->
            IF l = s.licitor_id
            THEN NewRow(s, get_tribunal_id(tribs, tribunal_slug),
                        is_historical, auction_date)
            ELSE store[l]]

\* An upsert that reports every listing as newly inserted.
upsert_is_new_always(store, s) == TRUE

\* upsert_listing_summary: its return value (True iff newly inserted).
upsert_is_new(store, s) == s.licitor_id \notin DOMAIN store

\* An update_listing_detail that writes the starting price of the detail
\* without COALESCE.
update_listing_detail_plain(store, d) ==
    IF d.licitor_id \in DOMAIN store
    THEN [store EXCEPT ![d.licitor_id] =
            [@ EXCEPT !.surface_m2 = d.surface_m2,
                      !.auction_date = d.auction_date,
                      !.mise_a_prix = d.mise_a_prix,
                      !.detail_scraped = TRUE]]
    ELSE store

\* update_listing_detail: UPDATE ... WHERE licitor_id = ?
update_listing_detail(store, d) ==
    IF d.licitor_id \in DOMAIN store
    THEN [store EXCEPT ![d.licitor_id] =
            [@ EXCEPT !.surface_m2 = d.surface_m2,
                      !.auction_date = d.auction_date,
                      !.mise_a_prix = IF d.mise_a_prix # Null
                                      THEN d.mise_a_prix ELSE @,
                      !.detail_scraped = TRUE]]
    ELSE store

update_listing_mise_a_prix(store, lid, v) ==
    IF lid \in DOMAIN store
    THEN [store EXCEPT ![lid] = [@ EXCEPT !.mise_a_prix = v]]
    ELSE store

update_listing_surface(store, lid, v) ==
    IF lid \in DOMAIN store
    THEN [store EXCEPT ![lid] = [@ EXCEPT !.surface_m2 = v]]
    ELSE store

mark_past_auctions(store) ==
    [l \in DOMAIN store |->
        IF /\ store[l].status = "upcoming"
           /\ store[l].auction_date # Null
           /\ store[l].auction_date < Today
        THEN [store[l] EXCEPT !.status = "past"]
        ELSE store[l]]

\* ------------------------------------------ table listings, row by row
\* The table as the sequence of its rows, each with its licitor_id column
\* and, under "shown", the columns only the INSERT takes from the summary
\* (url_path, property_type, department_code, city, description).
InsertRow(s, tribunal_id, is_historical, auction_date) ==
    [ licitor_id |-> s.licitor_id, shown |-> s.shown ]
        @@ NewRow(s, tribunal_id, is_historical, auction_date)

\* A SELECT that finds no row.
SelectRows_none(rows, lid) == {}

\* SELECT id FROM listings WHERE licitor_id = ?
SelectRows(rows, lid) == { i \in DOMAIN rows : rows[i].licitor_id = lid }

\* An upsert that inserts without looking for the licitor_id.
upsert_rows_always_insert(rows, tribs, s, tribunal_slug, is_historical, auction_date) ==
    Append(rows, InsertRow(s, get_tribunal_id(tribs, tribunal_slug),
                           is_historical, auction_date))

\* upsert_listing_summary on the rows: UPDATE ... WHERE licitor_id = ? when
\* the SELECT finds a row, INSERT otherwise.
upsert_rows(rows, tribs, s, tribunal_slug, is_historical, auction_date) ==
    IF SelectRows(rows, s.licitor_id) # {}
    THEN [ i \in DOMAIN rows |->
             IF i \in SelectRows(rows, s.licitor_id)
             THEN MergeRow(rows[i], s, is_historical) ELSE rows[i] ]
    ELSE Append(rows, InsertRow(s, get_tribunal_id(tribs, tribunal_slug),
                                is_historical, auction_date))

\* upsert_listing_summary on the rows: its return value.
upsert_rows_returns(rows, s) == SelectRows(rows, s.licitor_id) = {}

\* The UPDATE statements of the other writers, applied to every row.
update_detail_rows(rows, d) ==
    [ i \in DOMAIN rows |->
        update_listing_detail(rows[i].licitor_id :> rows[i], d)[rows[i].licitor_id] ]

update_mise_a_prix_rows(rows, lid, v) ==
    [ i \in DOMAIN rows |->
        update_listing_mise_a_prix(rows[i].licitor_id :> rows[i], lid, v)
            [rows[i].licitor_id] ]

update_surface_rows(rows, lid, v) ==
    [ i \in DOMAIN rows |->
        update_listing_surface(rows[i].licitor_id :> rows[i], lid, v)
            [rows[i].licitor_id] ]

mark_past_rows(rows) ==
    [ i \in DOMAIN rows |->
        mark_past_auctions(rows[i].licitor_id :> rows[i])[rows[i].licitor_id] ]

\* ORDER BY key ASC over a set of ids, then LIMIT: ids as a sequence.
RECURSIVE OrderBy(_, _, _)
OrderBy(ids, key(_), limit) ==
    IF ids = {} \/ limit = 0 THEN << >>
    ELSE LET first == CHOOSE i \in ids : \A j \in ids : key(i) <= key(j)
         IN  <<first>> \o OrderBy(ids \ {first}, key, limit - 1)

\* ORDER BY auction_date ASC NULLS LAST (rows of equal date in id order).
get_listings_without_detail(store, limit) ==
    LET ids == {l \in DOMAIN store : ~store[l].detail_scraped}
        key(l) == (IF store[l].auction_date = Null
                   THEN 100 ELSE store[l].auction_date) * 100 + l
    IN  OrderBy(ids, key, limit)

\* ORDER BY licitor_id DESC
get_listings_without_mise_a_prix(store, limit) ==
    LET ids == {l \in DOMAIN store :
                  /\ store[l].result_status # NoStatus
                  /\ store[l].mise_a_prix \in {Null, 0}}
        key(l) == 0 - l
    IN  OrderBy(ids, key, limit)

get_listings_without_surface(store, limit) ==
    LET ids == {l \in DOMAIN store :
                  /\ store[l].result_status # NoStatus
                  /\ store[l].surface_m2 \in {Null, 0}}
        key(l) == 0 - l
    IN  OrderBy(ids, key, limit)

\* A row of scrape_log as start_scrape_log inserts it (column defaults).
start_scrape_log(log, id, scrape_type) ==
    [i \in DOMAIN log \cup {id} |->
        IF i = id
        THEN [ scrape_type |-> scrape_type, finished |-> FALSE,
               pages_scraped |-> 0, listings_new |-> 0,
               listings_updated |-> 0, errors |-> 0, notes |-> Null ]
        ELSE log[i]]

\* finish_scrape_log that leaves the errors column at its default.
finish_scrape_log_without_errors(log, id, pages, new, upd, errs, notes) ==
    IF id \in DOMAIN log
    THEN [log EXCEPT ![id] =
            [@ EXCEPT !.finished = TRUE, !.pages_scraped = pages,
                      !.listings_new = new, !.listings_updated = upd,
                      !.notes = notes]]
    ELSE log

\* finish_scrape_log: UPDATE scrape_log SET ... WHERE id = ?
\* notes is the n of "not_found=n", Null for the default "".
finish_scrape_log(log, id, pages, new, upd, errs, notes) ==
    IF id \in DOMAIN log
    THEN [log EXCEPT ![id] =
            [@ EXCEPT !.finished = TRUE, !.pages_scraped = pages,
                      !.listings_new = new, !.listings_updated = upd,
                      !.errors = errs, !.notes = notes]]
    ELSE log

\* _migrate on a store whose CHECK constraint accepts every job type:
\* the probe row is inserted, then every row matching the DELETE goes.
migrate_probe(log) ==
    LET gone == {i \in DOMAIN log :
                    /\ log[i].scrape_type = ProbeType
                    /\ ~log[i].finished
                    /\ log[i].pages_scraped = 0}
    IN  [i \in DOMAIN log \ gone |-> log[i]]

\* ----------------------------------------------------- progress reporter
NoWriter ==
    [ bound |-> FALSE, job_type |-> "", total |-> 0, processed |-> 0,
      updated |-> 0, errors |-> 0, not_found |-> 0,
      phase |-> "", phase_number |-> 0, phase_total |-> 0 ]

\* ProgressWriter.__init__ (the object; its flush is in the action).
ProgressWriter(job_type, total) ==
    [ NoWriter EXCEPT !.bound = TRUE, !.job_type = job_type, !.total = total ]

NoFile ==
    [ exists |-> FALSE, job_type |-> "", status |-> "", total |-> 0,
      processed |-> 0, updated |-> 0, errors |-> 0, not_found |-> 0,
      remaining |-> 0, phase |-> "", phase_number |-> 0, phase_total |-> 0,
      error_message |-> "" ]

\* ProgressWriter._flush: the record that replaces the progress file.
flush(p, status, error_message) ==
    [ exists |-> TRUE, job_type |-> p.job_type, status |-> status,
      total |-> p.total, processed |-> p.processed, updated |-> p.updated,
      errors |-> p.errors, not_found |-> p.not_found,
      remaining |-> p.total - p.processed,
      phase |-> p.phase, phase_number |-> p.phase_number,
      phase_total |-> p.phase_total, error_message |-> error_message ]

\* tick that forgets the errors counter.
tick_without_errors(p, updated, error, not_found) ==
    [ p EXCEPT !.processed = @ + 1,
               !.updated   = IF updated THEN @ + 1 ELSE @,
               !.not_found = IF not_found THEN @ + 1 ELSE @ ]

\* tick that counts every item twice.
tick_counts_twice(p, updated, error, not_found) ==
    [ p EXCEPT !.processed = @ + 2,
               !.updated   = IF updated THEN @ + 2 ELSE @,
               !.errors    = IF error THEN @ + 2 ELSE @,
               !.not_found = IF not_found THEN @ + 2 ELSE @ ]

\* ProgressWriter.tick: the counters after the call.
tick(p, updated, error, not_found) ==
    [ p EXCEPT !.processed = @ + 1,
               !.updated   = IF updated THEN @ + 1 ELSE @,
               !.errors    = IF error THEN @ + 1 ELSE @,
               !.not_found = IF not_found THEN @ + 1 ELSE @ ]

set_phase(p, phase, phase_number, phase_total) ==
    [ p EXCEPT !.phase = phase, !.phase_number = phase_number,
               !.phase_total = phase_total ]

\* init_progress: the record the UI writes before starting the thread.
init_progress(job_type) ==
    [ NoFile EXCEPT !.exists = TRUE, !.job_type = job_type,
                    !.status = "running", !.phase = "Initialisation" ]

\* mark_error: only a record whose status is "running" is rewritten.
mark_error(file, message) ==
    IF file.exists /\ file.status = "running"
    THEN [file EXCEPT !.status = "error", !.error_message = message]
    ELSE file

\* is_cancel_requested that never sees the flag.
is_cancel_requested_never(flag) == FALSE

\* ProgressWriter.is_cancel_requested: _CANCEL_FILE.exists()
is_cancel_requested(flag) == flag

\* is_job_running, for a record that is not stale.
is_job_running(file) == file.exists /\ file.status = "running"


\* ------------------------------------------------------ site and inputs
SlugOf == <<"tj-a", "tj-b", "tj-c">>
MaxTribunals == 1    \* tribunals the index / history index can list
SiteSlugs == SubSeq(SlugOf, 1, MaxTribunals)
Limit == 1           \* the limit / detail_limit argument of the backfills

\* ListingSummary as TribunalScraper._parse_listings builds it.
UpcomingSummaries ==
    { [ licitor_id |-> l, mise_a_prix |-> m, final_price |-> Null,
        result_status |-> NoStatus, result_date |-> Null ] :
      l \in LicitorIds, m \in {Price} }

\* (result_status, final_price, result_date) as _parse_result_status
\* returns them.
HistoryResults ==
    { <<"sold", Price, 1>>, <<"carence", Null, Null>>,
      <<NoStatus, Null, Null>> }

\* ListingSummary as HistoryScraper._parse_results_from_soup builds it.
HistorySummaries ==
    { [ licitor_id |-> l, mise_a_prix |-> Null, final_price |-> r[2],
        result_status |-> r[1], result_date |-> r[3] ] :
      l \in LicitorIds, r \in HistoryResults }

\* ListingDetail as DetailScraper.scrape builds it for a listing.
Details(lid) ==
    { [ licitor_id |-> lid, surface_m2 |-> s, auction_date |-> d,
        mise_a_prix |-> m ] :
      s \in {Null, Surface}, d \in {1}, m \in {Null} }

\* The listings a page can show next: a page shows a listing once, and the
\* summaries of one scrape are taken in the order of their licitor ids.
PageNext(summaries, ww) ==
    { s \in summaries :
        /\ s.licitor_id > ww.last
        /\ s.licitor_id <= MaxLicitor - (ww.summaries - ww.sidx) }

PageSizes == 0..(IF MaxSummaries < MaxLicitor THEN MaxSummaries ELSE MaxLicitor)

\* ----------------------------------------------------------------- state
VARIABLES
    pc,             \* position of the worker (thread or CLI process)
    job,            \* mode of the running job
    launcher,       \* "ui" (_launch_job) or "cli" (run_scrape.main)
    w,              \* local variables of the running workflow
    pw,             \* the workflow's ProgressWriter object
    progress_file,  \* data/scrape_progress.json
    cancel_flag,    \* presence of data/scrape_cancel.flag
    scrape_log,     \* table scrape_log: id -> row
    next_log_id,    \* AUTOINCREMENT counter of scrape_log
    listings,       \* table listings: licitor_id -> row
    tribunals,      \* table tribunals: the stored slugs
    alert_checked,  \* licitor ids handed to match_new_listings
    g               \* observations of the current run (history variable)

vars == << pc, job, launcher, w, pw, progress_file, cancel_flag,
           scrape_log, next_log_id, listings, tribunals, alert_checked, g >>

files == << progress_file, cancel_flag >>
logtab == << scrape_log, next_log_id >>
tables == << listings, tribunals, alert_checked >>

UIModes == { "full", "incremental", "history", "map-backfill",
             "surface-backfill", "backfill" }
CLIModes == { "incremental", "history", "backfill", "map-backfill",
              "surface-backfill" }

\* The job_type each workflow gives its ProgressWriter.
JobType(mode) ==
    CASE mode = "full" -> "full"
      [] mode = "incremental" -> "incremental"
      [] mode = "history" -> "history"
      [] mode = "map-backfill" -> "map_backfill"
      [] mode = "surface-backfill" -> "surface_backfill"
      [] mode = "backfill" -> "detail_backfill"

\* The scrape_type each workflow gives start_scrape_log.
ScrapeType(mode) ==
    CASE mode = "full" -> "full_index"
      [] mode = "incremental" -> "incremental"
      [] mode = "history" -> "history"
      [] mode = "map-backfill" -> "map_backfill"
      [] mode = "surface-backfill" -> "surface_backfill"
      [] mode = "backfill" -> "detail_backfill"

MsgBody == "exception raised in the workflow body"
MsgUnbound == "cannot access local variable 'pw'"

Locals ==
    [ log_id |-> 0, errors |-> 0, new_listing_ids |-> << >>,
      new_count |-> 0, updated_count |-> 0, total_pages |-> 0,
      updated |-> 0, not_found |-> 0,
      items |-> << >>, idx |-> 1, loop |-> "", summaries |-> 0,
      sidx |-> 1, last |-> 0, nfetch |-> 0, walk |-> "", got |-> FALSE, exc |-> "none" ]

Observed ==
    [ cancel_signalled |-> FALSE, fetches_since_cancel |-> 0,
      items_after_cancel |-> 0,
      items_started |-> 0, transport_items |-> 0,
      item_open |-> FALSE, item_failed |-> FALSE, dropped |-> 0, terminal_writes |-> 0,
      last_write |-> "", log_updates |-> 0 ]

EmptyStore == [l \in {} |-> NewRow(CHOOSE s \in UpcomingSummaries : TRUE,
                                   NoSlug, FALSE, Null)]
EmptyLog == [i \in {} |-> [ scrape_type |-> "", finished |-> FALSE,
                            pages_scraped |-> 0, listings_new |-> 0,
                            listings_updated |-> 0, errors |-> 0,
                            notes |-> Null ]]

\* Stores left by earlier runs: nothing, or listing 1 as an earlier history
\* run and / or listing MaxLicitor as an earlier incremental run left it.
SeedHistory == CHOOSE s \in HistorySummaries :
                 s.licitor_id = 1 /\ s.result_status = "sold" /\ s.result_date = 1
SeedUpcoming == CHOOSE s \in UpcomingSummaries :
                  s.licitor_id = MaxLicitor /\ s.mise_a_prix = Price
InitStores ==
    LET h == upsert_listing_summary(EmptyStore, {}, SeedHistory, "tj-a", TRUE,
                                    SeedHistory.result_date)
    IN  { EmptyStore, h,
          upsert_listing_summary(h, {"tj-a"}, SeedUpcoming, "tj-a", FALSE, Null) }

Init ==
    /\ pc = "idle" /\ job = "none" /\ launcher = "none"
    /\ w = Locals /\ pw = NoWriter /\ g = Observed
    /\ progress_file = NoFile /\ cancel_flag = FALSE
    /\ scrape_log = EmptyLog /\ next_log_id = 1
    /\ listings \in InitStores
    /\ tribunals = {} /\ alert_checked = {}

\* ------------------------------------------------------------- launchers
\* run_scrape.main: parse the mode, then initialize and run in-process.
LaunchCLI ==
    /\ pc = "idle"
    /\ \E mode \in CLIModes :
         /\ job' = mode
         /\ launcher' = "cli"
         /\ pc' = "initialize"
    /\ w' = Locals /\ pw' = NoWriter /\ g' = Observed
    /\ UNCHANGED << files, logtab, tables >>

\* render_scraper_tab + _launch_job: the buttons exist only when no job is
\* reported running; init_progress runs before the thread starts.
LaunchUI ==
    /\ pc = "idle"
    /\ ~is_job_running(progress_file)
    /\ \E mode \in UIModes :
         /\ job' = mode
         /\ progress_file' = init_progress(mode)
    /\ cancel_flag' = FALSE
    /\ launcher' = "ui"
    /\ pc' = "initialize"
    /\ w' = Locals /\ pw' = NoWriter /\ g' = Observed
    /\ UNCHANGED << logtab, tables >>

\* db.initialize() at the head of _run and of run_scrape.main.
WorkerInitialize ==
    /\ pc = "initialize"
    /\ scrape_log' = migrate_probe(scrape_log)
    /\ pc' = "start"
    /\ UNCHANGED << job, launcher, w, pw, files, next_log_id, tables, g >>

\* The position after the ProgressWriter is built / after the log row.
AfterWriter(mode) ==
    CASE mode = "full" -> "phase1"
      [] mode = "incremental" -> "index"
      [] mode = "history" -> "discover"
      [] mode = "backfill" -> "select"
      [] mode \in {"map-backfill", "surface-backfill"} -> "loop"

FirstLoop(mode) ==
    CASE mode \in {"full", "incremental"} -> "tribunal"
      [] mode = "history" -> "history"
      [] mode = "backfill" -> "detail"
      [] mode = "map-backfill" -> "map"
      [] mode = "surface-backfill" -> "surface"

\* log_id = self.db.start_scrape_log(...), first statement of every run_*.
StartScrapeLog ==
    /\ pc = "start"
    /\ scrape_log' = start_scrape_log(scrape_log, next_log_id, ScrapeType(job))
    /\ next_log_id' = next_log_id + 1
    /\ w' = [w EXCEPT !.log_id = next_log_id, !.loop = FirstLoop(job)]
    /\ pc' = IF job \in {"map-backfill", "surface-backfill"}
             THEN "select" ELSE "new_pw"
    /\ UNCHANGED << job, launcher, pw, files, tables, g >>

\* A progress record written during the run, as the run observes it.
Wrote(gg, status) ==
    [ gg EXCEPT !.last_write = status,
                !.terminal_writes =
                    IF status = "running" THEN @ ELSE @ + 1 ]

\* pw = ProgressWriter(job_type, total): clears the cancel flag, flushes.
NewProgressWriter ==
    /\ pc = "new_pw"
    /\ pw' = ProgressWriter(JobType(job),
                            IF job \in {"map-backfill", "surface-backfill"}
                            THEN Len(w.items) ELSE 1)
    /\ cancel_flag' = FALSE
    /\ progress_file' = flush(pw', "running", "")
    /\ g' = Wrote(g, "running")
    /\ pc' = AfterWriter(job)
    /\ UNCHANGED << job, launcher, w, logtab, tables >>

\* An exception leaves the try body: control goes to the except clauses.
Raise(ww, kind) == [ww EXCEPT !.exc = kind]


\* One HTTP fetch has been performed (BaseScraper.fetch returned or raised).
Fetched(gg) ==
    [ gg EXCEPT !.fetches_since_cancel =
                    IF gg.cancel_signalled /\ @ <= MaxFetches THEN @ + 1 ELSE @ ]

\* A fetch of the current item failed after its retries (Transport).
ItemFailed(gg) ==
    [ gg EXCEPT !.item_failed = TRUE,
                !.transport_items = IF gg.item_failed THEN @ ELSE @ + 1 ]

\* The loop moves to its next element.
NextItem(ww) ==
    [ ww EXCEPT !.idx = @ + 1, !.summaries = 0, !.sidx = 1, !.last = 0,
                !.nfetch = 0, !.walk = "", !.got = FALSE ]

\* pw.tick(...) followed by its flush, the last statement of an item.
TickAndNext(ww, gg, updated, error, not_found) ==
    /\ w' = ww
    /\ pw' = tick(pw, updated, error, not_found)
    /\ progress_file' = flush(pw', "running", "")
    /\ g' = [Wrote(gg, "running") EXCEPT !.item_open = FALSE]
    /\ pc' = "loop"
    /\ UNCHANGED << job, launcher, cancel_flag, logtab >>

\* The item-level "except Exception": errors += 1; pw.tick(error=True).
ItemFails(gg) ==
    /\ TickAndNext([NextItem(w) EXCEPT !.errors = @ + 1], gg,
                   FALSE, TRUE, FALSE)
    /\ UNCHANGED tables

\* pw.set_phase(...) of run_full, phases 1 and 2.
SetPhase ==
    /\ pc \in {"phase1", "phase2"}
    /\ pw' = IF pc = "phase1"
             THEN set_phase(pw, "Decouverte des tribunaux", 1, 5)
             ELSE set_phase(pw, "Encheres a venir", 2, 5)
    /\ progress_file' = flush(pw', "running", "")
    /\ g' = Wrote(g, "running")
    /\ pc' = IF pc = "phase1" THEN "index" ELSE "loop"
    /\ UNCHANGED << job, launcher, w, cancel_flag, logtab, tables >>

\* index_scraper.scrape(); upsert_tribunals; active = auction_count > 0;
\* pw.total = ...  (run_incremental and run_full)
IndexScrape ==
    /\ pc = "index"
    /\ \E n \in 0..MaxTribunals : \E k \in 0..n :
         /\ tribunals' = tribunals \cup {SiteSlugs[i] : i \in 1..n}
         /\ w' = [w EXCEPT !.items = SubSeq(SiteSlugs, 1, k), !.idx = 1]
         /\ pw' = [pw EXCEPT !.total = IF job = "full" THEN k ELSE k + 1]
    /\ g' = Fetched(g)
    /\ pc' = IF job = "full" THEN "phase2" ELSE "loop"
    /\ UNCHANGED << job, launcher, files, logtab, listings, alert_checked >>

\* discover_tribunal_results_urls(); optional slug filter; pw.total = len.
Discover ==
    /\ pc = "discover"
    /\ \E k \in 0..MaxTribunals :
         /\ w' = [w EXCEPT !.items = SubSeq(SiteSlugs, 1, k), !.idx = 1]
         /\ pw' = [pw EXCEPT !.total = k]
    /\ g' = Fetched(g)
    /\ pc' = "loop"
    /\ UNCHANGED << job, launcher, files, logtab, tables >>

PhaseLabel(loop) ==
    CASE loop = "detail" -> "Backfill details"
      [] loop = "map" -> "Backfill mises a prix"
      [] loop = "surface" -> "Backfill surfaces"

\* Phase numbers with those of the detail and starting-price loops swapped.
PhaseNumber_swapped(loop) ==
    CASE loop = "detail" -> 4 [] loop = "map" -> 3 [] loop = "surface" -> 5

PhaseNumber(loop) ==
    CASE loop = "detail" -> 3 [] loop = "map" -> 4 [] loop = "surface" -> 5

Selected(loop) ==
    CASE loop = "detail" -> get_listings_without_detail(listings, Limit)
      [] loop = "map" -> get_listings_without_mise_a_prix(listings, Limit)
      [] loop = "surface" -> get_listings_without_surface(listings, Limit)

\* listings = self.db.get_listings_without_*(limit) and what follows it up
\* to the loop: pw.total (detail backfill), set_phase + pw.total (run_full).
Select ==
    /\ pc = "select"
    /\ LET items == Selected(w.loop) IN
         /\ w' = [w EXCEPT !.items = items, !.idx = 1]
         /\ IF job = "full" /\ items # << >>
            THEN LET p == set_phase(pw, PhaseLabel(w.loop),
                                    PhaseNumber(w.loop), 5) IN
                   /\ progress_file' = flush(p, "running", "")
                   /\ pw' = [p EXCEPT !.total = pw.processed + Len(items)]
                   /\ g' = Wrote(g, "running")
            ELSE /\ pw' = IF job = "backfill"
                          THEN [pw EXCEPT !.total = Len(items)] ELSE pw
                 /\ UNCHANGED << progress_file, g >>
    /\ pc' = IF job \in {"map-backfill", "surface-backfill"}
             THEN "new_pw" ELSE "loop"
    /\ UNCHANGED << job, launcher, cancel_flag, logtab, tables >>

\* An exception escapes a statement of the try body that no item-level
\* handler covers: the index / discovery fetch, a selector query,
\* upsert_tribunals, mark_past_auctions or _match_alerts.
BodyFails ==
    /\ pc \in {"index", "discover", "select", "mark_past", "match_alerts"}
    /\ w' = Raise(w, "fatal")
    /\ g' = IF pc \in {"index", "discover"} THEN Fetched(g) ELSE g
    /\ pc' = "except"
    /\ UNCHANGED << job, launcher, pw, files, logtab, tables >>

\* What follows a for loop whose list is exhausted.
LoopExit ==
    /\ pw' = IF job = "incremental" /\ w.loop = "tribunal"
                /\ w.new_listing_ids # << >>
             THEN [pw EXCEPT !.total = pw.processed
                                       + Len(w.new_listing_ids) + 1]
             ELSE pw
    /\ w' = CASE job = "incremental" /\ w.loop = "tribunal" ->
                   [w EXCEPT !.items = w.new_listing_ids, !.idx = 1,
                             !.loop = "newdetail"]
              [] job = "full" /\ w.loop = "detail" -> [w EXCEPT !.loop = "map"]
              [] job = "full" /\ w.loop = "map" -> [w EXCEPT !.loop = "surface"]
              [] OTHER -> w
    /\ pc' = CASE job = "incremental" /\ w.loop = "tribunal" -> "loop"
               [] job = "incremental" /\ w.loop = "newdetail" -> "mark_past"
               [] job = "full" /\ w.loop = "tribunal" -> "mark_past"
               [] job = "full" /\ w.loop \in {"detail", "map"} -> "select"
               [] OTHER -> "finish"
    /\ UNCHANGED g

\* The loop has taken its next element; open says whether statements of
\* the element's body are still to run.
BeginItem(gg, open) ==
    [ gg EXCEPT !.items_started = @ + 1, !.item_failed = FALSE,
                !.item_open = open,
                !.items_after_cancel =
                    IF gg.cancel_signalled THEN @ + 1 ELSE @ ]

\* The head of every item loop: "for x in xs: if pw.is_cancel_requested():
\* raise ScrapeCancelled()", and in the detail loop of run_incremental the
\* get_listing_by_licitor_id test that guards the item.
LoopHead ==
    /\ pc = "loop"
    /\ IF w.idx > Len(w.items) THEN LoopExit
       ELSE IF is_cancel_requested(cancel_flag)
       THEN /\ w' = Raise(w, "cancelled")
            /\ pc' = "except"
            /\ UNCHANGED << pw, g >>
       ELSE /\ pw' = pw
            /\ IF w.loop = "newdetail"
                  /\ ~(/\ w.items[w.idx] \in DOMAIN listings
                       /\ ~listings[w.items[w.idx]].detail_scraped)
               THEN /\ g' = BeginItem(g, FALSE)
                    /\ w' = NextItem(w)
                    /\ pc' = "loop"
               ELSE /\ g' = BeginItem(g, TRUE)
                    /\ w' = [w EXCEPT !.walk = IF w.loop = "history"
                                               THEN "nav" ELSE ""]
                    /\ pc' = "fetch"
    /\ UNCHANGED << job, launcher, files, logtab, tables >>

\* listing = self.db.get_listing_by_licitor_id(lid) of run_incremental
\* raises: the statement stands outside the item's try.
LookupFails ==
    /\ pc = "loop"
    /\ w.loop = "newdetail"
    /\ w.idx <= Len(w.items)
    /\ ~is_cancel_requested(cancel_flag)
    /\ g' = BeginItem(g, TRUE)
    /\ w' = Raise(w, "fatal")
    /\ pc' = "except"
    /\ UNCHANGED << job, launcher, pw, files, logtab, tables >>

\* detail_scraper.scrape / scrape_mise_a_prix / scrape_surface: one fetch.
FetchListingPage ==
    /\ pc = "fetch"
    /\ w.loop \in {"newdetail", "detail", "map", "surface"}
    /\ \/ /\ w' = [w EXCEPT !.nfetch = @ + 1]
          /\ g' = Fetched(g)
          /\ pc' = "store"
          /\ UNCHANGED << job, launcher, pw, files, logtab, tables >>
       \/ ItemFails(ItemFailed(Fetched(g)))

\* update_listing_detail(detail); [updated += 1]; pw.tick(updated=True)
StoreDetail ==
    /\ pc = "store"
    /\ w.loop \in {"newdetail", "detail"}
    /\ \E d \in Details(w.items[w.idx]) :
         listings' = update_listing_detail(listings, d)
    /\ TickAndNext([NextItem(w) EXCEPT
                      !.updated = IF job = "backfill" THEN @ + 1 ELSE @],
                   g, TRUE, FALSE, FALSE)
    /\ UNCHANGED << tribunals, alert_checked >>

\* "if value and value > 0: update; tick(updated) else: tick(not_found)"
\* of the starting-price and surface loops.
StoreField ==
    /\ pc = "store"
    /\ w.loop \in {"map", "surface"}
    /\ LET lid == w.items[w.idx]
           own == job \in {"map-backfill", "surface-backfill"}
       IN \E v \in {Null, 0, IF w.loop = "map" THEN Price ELSE Surface} :
            IF v # Null /\ v > 0
            THEN /\ listings' = IF w.loop = "map"
                                THEN update_listing_mise_a_prix(listings, lid, v)
                                ELSE update_listing_surface(listings, lid, v)
                 /\ TickAndNext([NextItem(w) EXCEPT
                                   !.updated = IF own THEN @ + 1 ELSE @],
                                g, TRUE, FALSE, FALSE)
            ELSE /\ listings' = listings
                 /\ TickAndNext([NextItem(w) EXCEPT
                                   !.not_found = IF own THEN @ + 1 ELSE @],
                                g, FALSE, FALSE, TRUE)
    /\ UNCHANGED << tribunals, alert_checked >>

\* The store write of the item raises (the value to write was found).
StoreFails ==
    /\ pc = "store"
    /\ ItemFails(g)

\* TribunalScraper.scrape: the pagination loop and the other hearing dates,
\* one fetch per step; no handler inside, so a failed fetch reaches the
\* orchestrator's item handler.
FetchTribunalPage ==
    /\ pc = "fetch"
    /\ w.loop = "tribunal"
    /\ \/ /\ w.nfetch + 1 < MaxFetches
          /\ w' = [w EXCEPT !.nfetch = @ + 1]
          /\ g' = Fetched(g)
          /\ pc' = "fetch"
          /\ UNCHANGED << job, launcher, pw, files, logtab, tables >>
       \/ /\ \E n \in PageSizes :
               w' = [w EXCEPT !.nfetch = @ + 1, !.summaries = n, !.sidx = 1]
          /\ g' = Fetched(g)
          /\ pc' = "upsert"
          /\ UNCHANGED << job, launcher, pw, files, logtab, tables >>
       \/ ItemFails(ItemFailed(Fetched(g)))

\* "for s in summaries: is_new = upsert_listing_summary(s, tribunal_slug);
\* if is_new: new_listing_ids.append(...)" then pw.tick(updated=True), of
\* run_incremental and run_full; an upsert that raises leaves the loop.
UpsertSummary ==
    /\ pc = "upsert"
    /\ w.loop = "tribunal"
    /\ IF w.sidx > w.summaries
       THEN /\ TickAndNext(NextItem(w), g, TRUE, FALSE, FALSE)
            /\ UNCHANGED tables
       ELSE \E s \in PageNext(UpcomingSummaries, w) :
            \/ /\ listings' = upsert_listing_summary(listings, tribunals, s,
                                  w.items[w.idx], FALSE, Null)
               /\ w' = [w EXCEPT !.sidx = @ + 1, !.last = s.licitor_id,
                                 !.new_listing_ids =
                                     IF upsert_is_new(listings, s)
                                     THEN Append(@, s.licitor_id) ELSE @]
               /\ pc' = "upsert"
               /\ UNCHANGED << job, launcher, pw, files, logtab,
                               tribunals, alert_checked, g >>
            \/ ItemFails([g EXCEPT
                            !.dropped = @ + w.summaries - w.sidx])


\* scrape_tribunal_history hands its list back to the orchestrator: nothing
\* when no page was fetched, else what the fetched pages listed.
WalkReturns(ww) ==
    /\ \E n \in (IF ww.got THEN PageSizes ELSE {0}) :
         w' = [ww EXCEPT !.summaries = n, !.sidx = 1]
    /\ pc' = "upsert"

\* After a fetch of the walk, the page decides (by its PageTotal, its
\* traversing-hearings list, its Next link) what the walk fetches next:
\* a further page of the hearing, another hearing, the previous-hearings
\* page, or nothing.
WalkContinues(ww) ==
    \/ /\ ww.nfetch < MaxFetches
       /\ \E nxt \in (IF ww.walk = "hearing" THEN {"hearing", "nav"}
                                             ELSE {"page", "hearing", "nav"}) :
            w' = [ww EXCEPT !.walk = nxt]
       /\ pc' = "fetch"
    \/ WalkReturns(ww)

\* HistoryScraper.scrape_tribunal_history, one fetch per step.  A failed
\* fetch of a navigation page is logged and ends the walk (break); a failed
\* fetch of a further page of that hearing propagates; a failed fetch inside
\* scrape_hearing_all_pages is logged and the walk goes on.
FetchHistoryPage ==
    /\ pc = "fetch"
    /\ w.loop = "history"
    /\ \/ /\ WalkContinues([w EXCEPT !.nfetch = @ + 1, !.got = TRUE])
          /\ g' = Fetched(g)
          /\ UNCHANGED << job, launcher, pw, files, logtab, tables >>
       \/ /\ w.walk = "nav"
          /\ WalkReturns([w EXCEPT !.nfetch = @ + 1])
          /\ g' = ItemFailed(Fetched(g))
          /\ UNCHANGED << job, launcher, pw, files, logtab, tables >>
       \/ /\ w.walk = "page"
          /\ ItemFails(ItemFailed(Fetched(g)))
       \/ /\ w.walk = "hearing"
          /\ WalkContinues([w EXCEPT !.nfetch = @ + 1])
          /\ g' = ItemFailed(Fetched(g))
          /\ UNCHANGED << job, launcher, pw, files, logtab, tables >>

\* "for s in summaries: try: upsert_listing_summary(s, slug, True,
\* s.result_date); new_count / updated_count += 1; except: errors += 1" then
\* total_pages += 1; pw.tick(updated=True), of run_history_backfill.
UpsertHistorySummary ==
    /\ pc = "upsert"
    /\ w.loop = "history"
    /\ IF w.sidx > w.summaries
       THEN /\ TickAndNext([NextItem(w) EXCEPT !.total_pages = @ + 1], g,
                           TRUE, FALSE, FALSE)
            /\ UNCHANGED tables
       ELSE \E s \in PageNext(HistorySummaries, w) :
            \/ /\ listings' = upsert_listing_summary(listings, tribunals, s,
                                  w.items[w.idx], TRUE, s.result_date)
               /\ w' = IF upsert_is_new(listings, s)
                       THEN [w EXCEPT !.sidx = @ + 1, !.last = s.licitor_id,
                                      !.new_count = @ + 1]
                       ELSE [w EXCEPT !.sidx = @ + 1, !.last = s.licitor_id,
                                      !.updated_count = @ + 1]
               /\ pc' = "upsert"
               /\ UNCHANGED << job, launcher, pw, files, logtab,
                               tribunals, alert_checked, g >>
            \/ /\ w' = [w EXCEPT !.sidx = @ + 1, !.last = s.licitor_id,
                                 !.errors = @ + 1]
               /\ pc' = "upsert"
               /\ UNCHANGED << job, launcher, pw, files, logtab, tables,
                               g >>

\* self.db.mark_past_auctions()
MarkPast ==
    /\ pc = "mark_past"
    /\ listings' = mark_past_auctions(listings)
    /\ pc' = "match_alerts"
    /\ UNCHANGED << job, launcher, w, pw, files, logtab, tribunals,
                    alert_checked, g >>

\* self._match_alerts(new_listing_ids)
MatchAlerts ==
    /\ pc = "match_alerts"
    /\ alert_checked' = alert_checked \cup
                          {w.new_listing_ids[i] : i \in DOMAIN w.new_listing_ids}
    /\ w' = IF job = "full" THEN [w EXCEPT !.loop = "detail"] ELSE w
    /\ pc' = IF job = "full" THEN "select" ELSE "finish"
    /\ UNCHANGED << job, launcher, pw, files, logtab, listings,
                    tribunals, g >>

\* pw.finish(), last statement of the try body.
Finish ==
    /\ pc = "finish"
    /\ progress_file' = flush(pw, "finished", "")
    /\ g' = Wrote(g, "finished")
    /\ pc' = "finally_clear"
    /\ UNCHANGED << job, launcher, w, pw, cancel_flag, logtab, tables >>

\* "except ScrapeCancelled: pw.cancel()" and "except Exception as exc:
\* pw.abort(str(exc)); raise".  In run_map_backfill and
\* run_surface_backfill pw is assigned inside the try, after the selector
\* query: when the query raised, pw.abort raises UnboundLocalError instead.
Except ==
    /\ pc = "except"
    /\ IF w.exc = "cancelled"
       THEN /\ progress_file' = flush(pw, "cancelled", "")
            /\ g' = Wrote(g, "cancelled")
            /\ w' = w
       ELSE IF pw.bound
       THEN /\ progress_file' = flush(pw, "error", MsgBody)
            /\ g' = Wrote(g, "error")
            /\ w' = w
       ELSE /\ w' = Raise(w, "unbound")
            /\ UNCHANGED << progress_file, g >>
    /\ pc' = "finally_clear"
    /\ UNCHANGED << job, launcher, pw, cancel_flag, logtab, tables >>

\* finally: _clear_cancel_flag()
FinallyClear ==
    /\ pc = "finally_clear"
    /\ cancel_flag' = FALSE
    /\ pc' = "finally_log"
    /\ UNCHANGED << job, launcher, w, pw, progress_file, logtab,
                    tables, g >>

\* finally: self.db.finish_scrape_log(log_id, ...) with each workflow's
\* keyword arguments (the others keep their defaults 0 and "").
FinallyLog ==
    /\ pc = "finally_log"
    /\ scrape_log' =
         CASE job \in {"incremental", "full"} ->
                finish_scrape_log(scrape_log, w.log_id, 0,
                                  Len(w.new_listing_ids), 0, w.errors, Null)
           [] job = "history" ->
                finish_scrape_log(scrape_log, w.log_id, w.total_pages,
                                  w.new_count, w.updated_count, w.errors, Null)
           [] job \in {"map-backfill", "surface-backfill"} ->
                finish_scrape_log(scrape_log, w.log_id,
                                  w.updated + w.not_found + w.errors, 0,
                                  w.updated, w.errors, w.not_found)
           [] job = "backfill" ->
                finish_scrape_log(scrape_log, w.log_id, 0, 0, w.updated,
                                  w.errors, Null)
    /\ g' = [g EXCEPT !.log_updates =
                        IF w.log_id \in DOMAIN scrape_log THEN @ + 1 ELSE @]
    /\ pc' = "exit"
    /\ UNCHANGED << job, launcher, w, pw, files, next_log_id, tables >>

\* The workflow returns or re-raises.  Under the UI the thread's handler
\* calls mark_error(str(exc)); under the CLI the process ends.
Exit ==
    /\ pc = "exit"
    /\ progress_file' =
         IF launcher = "ui" /\ w.exc \in {"fatal", "unbound"}
         THEN mark_error(progress_file,
                         IF w.exc = "fatal" THEN MsgBody ELSE MsgUnbound)
         ELSE progress_file
    /\ g' = IF progress_file' # progress_file THEN Wrote(g, "error") ELSE g
    /\ pc' = "done"
    /\ UNCHANGED << job, launcher, w, pw, cancel_flag, logtab, tables >>

\* ---------------------------------------------------------- environment
\* The positions of the try body once pw is bound: a cancel flag written
\* there is not cleared before the workflow leaves the body.
BodyPCs == { "phase1", "phase2", "index", "discover", "select", "loop",
             "fetch", "store", "upsert", "mark_past", "match_alerts" }

\* _stop_job -> request_cancel(): the stop button is rendered with the
\* progress of a job that is_job_running() reports.
RequestCancel ==
    /\ is_job_running(progress_file)
    /\ ~cancel_flag
    /\ cancel_flag' = TRUE
    /\ g' = IF pc \in BodyPCs /\ pw.bound
            THEN [g EXCEPT !.cancel_signalled = TRUE] ELSE g
    /\ UNCHANGED << pc, job, launcher, w, pw, progress_file, logtab,
                    tables >>

\* Database().initialize() of a dashboard session that opens while the
\* worker runs (app.py), or of init_db.
SessionInitialize ==
    /\ scrape_log' = migrate_probe(scrape_log)
    /\ scrape_log' # scrape_log
    /\ UNCHANGED << pc, job, launcher, w, pw, files, next_log_id,
                    tables, g >>

Next ==
    \/ LaunchCLI \/ LaunchUI \/ WorkerInitialize \/ StartScrapeLog
    \/ NewProgressWriter \/ SetPhase \/ IndexScrape \/ Discover \/ Select
    \/ BodyFails \/ LoopHead \/ LookupFails \/ FetchListingPage \/ StoreDetail
    \/ StoreField \/ StoreFails \/ FetchTribunalPage \/ UpsertSummary
    \/ FetchHistoryPage \/ UpsertHistorySummary \/ MarkPast \/ MatchAlerts
    \/ Finish \/ Except \/ FinallyClear \/ FinallyLog \/ Exit
    \/ RequestCancel \/ SessionInitialize

Spec == Init /\ [][Next]_vars

\* ------------------------------------------- ProgressWriter, as a class
\* A client that holds a ProgressWriter and calls its public methods in any
\* order, as the class permits.
TerminalStatus == { "finished", "cancelled", "error" }

InitWriter ==
    /\ pc = "client" /\ job = "backfill" /\ launcher = "none"
    /\ w = Locals /\ g = Observed
    /\ pw = ProgressWriter(JobType("backfill"), MaxTicks)
    /\ progress_file = flush(pw, "running", "")
    /\ cancel_flag = FALSE
    /\ scrape_log = EmptyLog /\ next_log_id = 1
    /\ listings = EmptyStore /\ tribunals = {} /\ alert_checked = {}

\* pw.tick(updated=..., error=..., not_found=...)
ApiTick ==
    /\ pc = "client"
    /\ pw.processed < MaxTicks
    /\ \E updated, error, not_found \in BOOLEAN :
         pw' = tick(pw, updated, error, not_found)
    /\ progress_file' = flush(pw', "running", "")
    /\ UNCHANGED << pc, job, launcher, w, cancel_flag, logtab, tables, g >>

\* pw.set_phase(phase, phase_number, phase_total)
ApiSetPhase ==
    /\ pc = "client"
    /\ \E k \in 1..2 : pw' = set_phase(pw, "phase", k, 2)
    /\ progress_file' = flush(pw', "running", "")
    /\ UNCHANGED << pc, job, launcher, w, cancel_flag, logtab, tables, g >>

\* pw.finish()
ApiFinish ==
    /\ pc = "client"
    /\ progress_file' = flush(pw, "finished", "")
    /\ UNCHANGED << pc, job, launcher, w, pw, cancel_flag, logtab, tables, g >>

\* pw.cancel()
ApiCancel ==
    /\ pc = "client"
    /\ progress_file' = flush(pw, "cancelled", "")
    /\ UNCHANGED << pc, job, launcher, w, pw, cancel_flag, logtab, tables, g >>

\* pw.abort(message)
ApiAbort ==
    /\ pc = "client"
    /\ progress_file' = flush(pw, "error", MsgBody)
    /\ UNCHANGED << pc, job, launcher, w, pw, cancel_flag, logtab, tables, g >>

NextWriter == ApiTick \/ ApiSetPhase \/ ApiFinish \/ ApiCancel \/ ApiAbort

SpecWriter == InitWriter /\ [][NextWriter]_vars

\* ---------------------------------------- the store operations on listings
\* Every writer of table listings, called on a table earlier calls left,
\* and the same call made a second time.  w.before is the table before the
\* call, w.once the table between the two calls.
Shown == { "a", "b" }

WithShown(s, v) ==
    [ licitor_id |-> s.licitor_id, shown |-> v, mise_a_prix |-> s.mise_a_prix,
      final_price |-> s.final_price, result_status |-> s.result_status,
      result_date |-> s.result_date ]

\* (result_status, final_price, result_date) of a past hearing's ad.
StoreResults == HistoryResults \cup { <<"non_requise", Null, Null>> }

StoreHistorySummaries ==
    { [ licitor_id |-> l, mise_a_prix |-> Null, final_price |-> r[2],
        result_status |-> r[1], result_date |-> r[3] ] :
      l \in LicitorIds, r \in StoreResults }

\* The calls of upsert_listing_summary the workflows make.
TribunalCalls(shown, slugs) ==
    { [ op |-> "upsert", s |-> WithShown(s, v), tribunal_slug |-> slug,
        is_historical |-> FALSE, auction_date |-> Null ] :
      s \in UpcomingSummaries, v \in shown, slug \in slugs }

HistoryCalls(shown, slugs) ==
    { [ op |-> "upsert", s |-> WithShown(s, v), tribunal_slug |-> slug,
        is_historical |-> TRUE, auction_date |-> s.result_date ] :
      s \in StoreHistorySummaries, v \in shown, slug \in slugs }

UpsertCalls(shown, slugs) ==
    TribunalCalls(shown, slugs) \cup HistoryCalls(shown, slugs)

StoreTribunals == { "tj-a" }

ApplyUpsert(rows, c) ==
    upsert_rows(rows, StoreTribunals, c.s, c.tribunal_slug, c.is_historical,
                c.auction_date)

\* Tables earlier runs left: up to two upserts, then possibly the detail
\* scrape of listing 1 or mark_past_auctions.
SeedTables ==
    LET calls == UpsertCalls({"a"}, {"tj-a"})
        one == { ApplyUpsert(<< >>, c) : c \in calls }
        two == { ApplyUpsert(t, c) : t \in one, c \in calls }
        base == { << >> } \cup one \cup two
    IN  base \cup { update_detail_rows(t, d) : t \in base, d \in Details(1) }
             \cup { mark_past_rows(t) : t \in base }

NoCall == [ op |-> "" ]
StoreLocals ==
    [ call |-> NoCall, before |-> << >>, once |-> << >>,
      ret |-> FALSE, ret2 |-> FALSE ]

InitStore ==
    /\ pc = "table" /\ job = "none" /\ launcher = "none"
    /\ w = StoreLocals /\ pw = NoWriter /\ g = Observed
    /\ progress_file = NoFile /\ cancel_flag = FALSE
    /\ scrape_log = EmptyLog /\ next_log_id = 1
    /\ listings \in SeedTables
    /\ tribunals = StoreTribunals /\ alert_checked = {}

\* The table after call c.
ApplyCall(rows, c) ==
    CASE c.op = "upsert"  -> ApplyUpsert(rows, c)
      [] c.op = "detail"  -> update_detail_rows(rows, c.d)
      [] c.op = "mise_a_prix" -> update_mise_a_prix_rows(rows, c.lid, c.v)
      [] c.op = "surface" -> update_surface_rows(rows, c.lid, c.v)
      [] c.op = "mark_past" -> mark_past_rows(rows)

Called(c) ==
    /\ pc = "table"
    /\ listings' = ApplyCall(listings, c)
    /\ w' = [ w EXCEPT !.call = c, !.before = listings, !.once = listings',
                       !.ret = IF c.op = "upsert"
                               THEN upsert_rows_returns(listings, c.s)
                               ELSE FALSE ]
    /\ pc' = "called"
    /\ UNCHANGED << job, launcher, pw, files, logtab, tribunals,
                    alert_checked, g >>

\* db.upsert_listing_summary(s, tribunal_slug=..., ...)
CallUpsert == \E c \in UpsertCalls(Shown, {"tj-a", "tj-b"}) : Called(c)

\* db.update_listing_detail(detail)
CallUpdateDetail ==
    \E l \in LicitorIds : \E d \in Details(l) :
        Called([ op |-> "detail", d |-> d ])

\* db.update_listing_mise_a_prix(lid, mise_a_prix)
CallUpdateMiseAPrix ==
    \E l \in LicitorIds : Called([ op |-> "mise_a_prix", lid |-> l, v |-> Price ])

\* db.update_listing_surface(lid, surface)
CallUpdateSurface ==
    \E l \in LicitorIds : Called([ op |-> "surface", lid |-> l, v |-> Surface ])

\* db.mark_past_auctions()
CallMarkPast == Called([ op |-> "mark_past" ])

\* The same call once more, with the same arguments.
CallAgain ==
    /\ pc = "called"
    /\ listings' = ApplyCall(listings, w.call)
    /\ w' = [ w EXCEPT !.ret2 = IF w.call.op = "upsert"
                                THEN upsert_rows_returns(listings, w.call.s)
                                ELSE FALSE ]
    /\ pc' = "again"
    /\ UNCHANGED << job, launcher, pw, files, logtab, tribunals,
                    alert_checked, g >>

NextStore ==
    \/ CallUpsert \/ CallUpdateDetail \/ CallUpdateMiseAPrix
    \/ CallUpdateSurface \/ CallMarkPast \/ CallAgain

SpecStore == InitStore /\ [][NextStore]_vars

\* ---------------------------------------------------------------- claims
\* The scrape_log row of the current run, once it exists.
RowExists == w.log_id \in DOMAIN scrape_log
Row == scrape_log[w.log_id]

C2_CancelledRunIsClosed ==
    (pc = "done" /\ w.exc = "cancelled") =>
        /\ progress_file.status = "cancelled"
        /\ ~cancel_flag
        /\ RowExists
        /\ Row.finished
        /\ Row.errors = w.errors

\* C3: when a run has ended, the last progress record written is a terminal
\* one, and exactly one terminal record was written during the run.
C3_ExactlyOneTerminalRecord ==
    pc = "done" =>
        /\ progress_file.exists
        /\ progress_file.status \in TerminalStatus
        /\ g.last_write \in TerminalStatus
        /\ g.terminal_writes = 1

\* C4: once finish(), cancel() or abort() has written a terminal record, a
\* later tick() or set_phase() leaves the progress record as it is.
C4_TerminalIsSticky ==
    [][ (progress_file.status \in TerminalStatus /\ (ApiTick \/ ApiSetPhase))
            => progress_file' = progress_file ]_vars

\* C5: when an exception leaves the body of a workflow, wherever it was
\* raised, the run ends with a progress record of status "error" that
\* carries the exception's message, and with its scrape_log row closed.
C5_FatalLeavesErrorRecord ==
    (pc = "done" /\ w.exc \in {"fatal", "unbound"}) =>
        /\ progress_file.exists
        /\ progress_file.status = "error"
        /\ progress_file.error_message = MsgBody
        /\ RowExists
        /\ Row.finished

\* C6: when a run has ended, the scrape_log row it created is still there,
\* is closed, and was updated exactly once.
C6_RowCreatedThenClosedOnce ==
    pc = "done" =>
        /\ RowExists
        /\ Row.finished
        /\ g.log_updates = 1

\* C7: every item a workflow loop iterates increments exactly one of the
\* progress counters updated, errors, not_found, exactly once: the items
\* whose iteration has ended are as many as processed, and processed is the
\* sum of the three counters.
C7_CounterDiscipline ==
    pw.bound =>
        /\ pw.processed = pw.updated + pw.errors + pw.not_found
        /\ pw.processed = g.items_started - (IF g.item_open THEN 1 ELSE 0)

\* A run about to finish in which each of the three counters was used.
C7_Witness ==
    /\ pc = "finish"
    /\ pw.updated >= 1 /\ pw.errors >= 1 /\ pw.not_found >= 1

\* C8 (as stated): when a run has ended, the counters of its scrape_log row
\* equal those of the final progress record: errors, and where the workflow
\* records them listings_updated = updated and the not_found of the notes.
C8_LogMirrorsProgress ==
    (pc = "done" /\ RowExists /\ progress_file.exists) =>
        /\ Row.errors = progress_file.errors
        /\ (job \in {"history", "backfill", "map-backfill",
                     "surface-backfill"}
              => Row.listings_updated = progress_file.updated)
        /\ (job \in {"map-backfill", "surface-backfill"}
              => Row.notes = progress_file.not_found)

\* C8 (amended): the same for every workflow but the history backfill; the
\* history backfill counts listings in scrape_log and tribunals in the
\* progress record, and its scrape_log.errors is at least progress.errors.
C8_LogMirrorsProgressButHistory ==
    (pc = "done" /\ RowExists /\ progress_file.exists) =>
        IF job = "history"
        THEN Row.errors >= progress_file.errors
        ELSE /\ Row.errors = progress_file.errors
             /\ (job \in {"backfill", "map-backfill", "surface-backfill"}
                   => Row.listings_updated = progress_file.updated)
             /\ (job \in {"map-backfill", "surface-backfill"}
                   => Row.notes = progress_file.not_found)

\* A run other than a history backfill that finished after an item failed.
C8_Witness ==
    /\ pc = "done" /\ job # "history" /\ RowExists
    /\ progress_file.status = "finished"
    /\ Row.errors >= 1 /\ progress_file.processed >= 2

\* C9: between two items, every item that met a transport failure has been
\* counted as an error, in the progress counters and in the counter that
\* goes to scrape_log.
C9_TransportFailureIsCounted ==
    (pc = "loop" /\ pw.bound) =>
        /\ pw.errors >= g.transport_items
        /\ w.errors >= g.transport_items

\* C10: a store failure while upserting one listing of a batch does not
\* keep the other listings of the batch from being upserted.
C10_NoListingDropped == g.dropped = 0

\* The phase number run_full reports for the loop it is in.
PhaseOfLoop(loop) == IF loop = "tribunal" THEN 2 ELSE PhaseNumber(loop)

C12_AlertsAfterDetailOfNewIds ==
    (pc = "match_alerts" /\ w.new_listing_ids # << >>) =>
        /\ w.loop = "newdetail"
        /\ w.items = w.new_listing_ids
        /\ w.idx > Len(w.items)

\* ---------------------------------------------------------- alert engine
\* Texts are sequences of characters; a comma-joined criterion is the
\* sequence of its pieces as split(",") returns them, Null when the column
\* is NULL.
NoText == << "NULL" >>
NoPieces == << NoText >>
lower_char(c) == CASE c = "A" -> "a" [] c = "M" -> "m" [] OTHER -> c
lower(t) == [ i \in DOMAIN t |-> lower_char(t[i]) ]

\* str.strip(): without leading and trailing blanks (pieces hold at most
\* one blank on each side).
strip(t) ==
    LET a == IF t # << >> /\ t[1] = " " THEN SubSeq(t, 2, Len(t)) ELSE t
    IN  IF a # << >> /\ a[Len(a)] = " " THEN SubSeq(a, 1, Len(a) - 1) ELSE a

\* needle in hay
contains(hay, needle) ==
    \E i \in 0..(Len(hay) - Len(needle)) :
        SubSeq(hay, i + 1, i + Len(needle)) = needle

\* Truth value of a text column: NULL and "" are false.
truthy(pieces) == pieces # NoPieces /\ pieces # << << >> >>

\* value or 0 / value or ""
or_zero(v) == IF v = Null THEN 0 ELSE v
or_empty(t) == IF t = NoText THEN << >> ELSE t

Stripped(pieces) == { strip(pieces[i]) : i \in DOMAIN pieces }

\* A match_listing that lets a listing without the value pass the bounds.
match_listing_null_passes(listing, alert) ==
    LET price_ok(v) ==
            v = Null \/ ( /\ ~(alert.min_price # Null /\ v < alert.min_price)
                          /\ ~(alert.max_price # Null /\ v > alert.max_price) )
        surface_ok(v) ==
            v = Null \/ ( /\ ~(alert.min_surface # Null /\ v < alert.min_surface)
                          /\ ~(alert.max_surface # Null /\ v > alert.max_surface) )
    IN  /\ price_ok(listing.mise_a_prix)
        /\ truthy(alert.department_codes)
              => listing.department_code \in Stripped(alert.department_codes)
        /\ truthy(alert.property_types)
              => \E t \in Stripped(alert.property_types) :
                    contains(lower(or_empty(listing.property_type)), lower(t))
        /\ surface_ok(listing.surface_m2)
        /\ truthy(alert.regions)
              => or_empty(listing.region) \in Stripped(alert.regions)

\* AlertEngine.match_listing, one early return after the other.
match_listing(listing, alert) ==
    LET mise_a_prix == or_zero(listing.mise_a_prix)
        surface == or_zero(listing.surface_m2)
    IN  IF alert.min_price # Null /\ mise_a_prix < alert.min_price THEN FALSE
        ELSE IF alert.max_price # Null /\ mise_a_prix > alert.max_price THEN FALSE
        ELSE IF /\ truthy(alert.department_codes)
                /\ listing.department_code \notin Stripped(alert.department_codes)
             THEN FALSE
        ELSE IF /\ truthy(alert.property_types)
                /\ ~\E t \in Stripped(alert.property_types) :
                      contains(lower(or_empty(listing.property_type)), lower(t))
             THEN FALSE
        ELSE IF alert.min_surface # Null /\ surface < alert.min_surface THEN FALSE
        ELSE IF alert.max_surface # Null /\ surface > alert.max_surface THEN FALSE
        ELSE IF /\ truthy(alert.regions)
                /\ or_empty(listing.region) \notin Stripped(alert.regions)
             THEN FALSE
        ELSE TRUE

\* Listing rows as match_new_listings reads them (l.*, t.region).
MatchListings ==
    [ mise_a_prix : {Null, Price, Price + 50},
      department_code : {NoText, <<"7">>, <<"8">>},
      property_type : {NoText, <<"M", "a">>, <<"b", "A", "m">>},
      surface_m2 : {Null, Surface, Surface + 10},
      region : {NoText, <<"i">>},
      tribunal : {"tj-a", "tj-b"} ]

\* Rows of table alerts.
AlertRows ==
    [ min_price : {Null, Price}, max_price : {Null, Price},
      department_codes : {NoPieces, << <<"7">>, <<" ", "9">> >>},
      property_types : {NoPieces, << << >> >>, << <<"m", "a">> >>,
                        << <<"x">>, <<" ", "A", "M", " ">> >>},
      min_surface : {Null, Surface}, max_surface : {Null, Surface},
      regions : {NoPieces, << <<"i">> >>},
      tribunal_slugs : {NoPieces} ]

MatchLocals == [ listing |-> << >>, alert |-> << >>, result |-> FALSE ]

InitMatch ==
    /\ pc = "match" /\ job = "none" /\ launcher = "none"
    /\ \E l \in MatchListings, a \in AlertRows :
          w = [ MatchLocals EXCEPT !.listing = l, !.alert = a ]
    /\ pw = NoWriter /\ g = Observed
    /\ progress_file = NoFile /\ cancel_flag = FALSE
    /\ scrape_log = EmptyLog /\ next_log_id = 1
    /\ listings = EmptyStore /\ tribunals = {} /\ alert_checked = {}

\* self.match_listing(listing, alert)
MatchListing ==
    /\ pc = "match"
    /\ w' = [ w EXCEPT !.result = match_listing(w.listing, w.alert) ]
    /\ pc' = "matched"
    /\ UNCHANGED << job, launcher, pw, files, logtab, tables, g >>

NextMatch == MatchListing

SpecMatch == InitMatch /\ [][NextMatch]_vars

\* ------------------------------------------- the launcher and the clock
STALE_TIMEOUT == 120
MaxClock == 4    \* minutes the clock can advance

\* An is_job_running that trusts the stored status alone.
is_job_running_by_status(data, now) == data.exists /\ data.status = "running"

\* is_job_running() at time now, data being the progress file (exists is
\* false when read_progress returns None; last_flush_ts is Null when the
\* record has no such key).
is_job_running_at(data, now) ==
    IF ~data.exists \/ data.status # "running" THEN FALSE
    ELSE LET last_flush == IF data.last_flush_ts = Null THEN 0
                           ELSE data.last_flush_ts
         IN  IF last_flush # 0 /\ (now - last_flush) > STALE_TIMEOUT
             THEN FALSE ELSE TRUE

\* The progress file at the first render: none, or one left by an earlier
\* run or an earlier version of the writer.  The clock starts at 1000 s.
InitLaunch ==
    /\ pc = "ui" /\ job = "none" /\ launcher = "ui"
    /\ w = [ now |-> 1000, workers |-> 0, rendered |-> FALSE,
             running |-> FALSE, data |-> [ exists |-> FALSE ], at |-> 0 ]
    /\ progress_file \in
          { [ exists |-> FALSE, status |-> "", last_flush_ts |-> Null ] } \cup
          [ exists : {TRUE}, status : {"running", "finished", "error"},
            last_flush_ts : {Null, 0, 820, 940} ]
    /\ pw = NoWriter /\ g = Observed /\ cancel_flag = FALSE
    /\ scrape_log = EmptyLog /\ next_log_id = 1
    /\ listings = EmptyStore /\ tribunals = {} /\ alert_checked = {}

\* render_scraper_tab: running = is_job_running()
RenderUI ==
    /\ w' = [ w EXCEPT !.rendered = TRUE,
                       !.running = is_job_running_at(progress_file, w.now),
                       !.data = progress_file, !.at = w.now ]
    /\ UNCHANGED << pc, job, launcher, pw, files, logtab, tables, g >>

\* A launch button of the page rendered with running false: _launch_job
\* writes the initial record and starts a worker thread.
LaunchJob ==
    /\ w.rendered /\ ~w.running
    /\ w.workers < 2
    /\ progress_file' = [ exists |-> TRUE, status |-> "running",
                          last_flush_ts |-> w.now ]
    /\ w' = [ w EXCEPT !.workers = @ + 1, !.rendered = FALSE ]
    /\ UNCHANGED << pc, job, launcher, pw, cancel_flag, logtab, tables, g >>

\* A worker ends an item (_flush of tick) or its run (_flush of finish).
WorkerFlush ==
    /\ w.workers > 0
    /\ \E ends \in BOOLEAN :
         /\ progress_file' = [ exists |-> TRUE,
                               status |-> IF ends THEN "finished" ELSE "running",
                               last_flush_ts |-> w.now ]
         /\ w' = [ w EXCEPT !.workers = IF ends THEN @ - 1 ELSE @ ]
    /\ UNCHANGED << pc, job, launcher, pw, cancel_flag, logtab, tables, g >>

\* A minute passes (a worker inside an item writes nothing meanwhile).
ClockTick ==
    /\ w.now < 1000 + 60 * MaxClock
    /\ w' = [ w EXCEPT !.now = @ + 60 ]
    /\ UNCHANGED << pc, job, launcher, pw, files, logtab, tables, g >>

NextLaunch == RenderUI \/ LaunchJob \/ WorkerFlush \/ ClockTick

SpecLaunch == InitLaunch /\ [][NextLaunch]_vars

\* ------------------------------------- the progress file and its temp file
\* Two threads write the progress file: the worker (_flush) and the UI
\* (init_progress, mark_error).  Both go through scrape_progress.tmp:
\* write_text opens it (truncating), writes the JSON text, closes; replace
\* renames it over scrape_progress.json.  A file is absent, empty or holds
\* the n-th record of a writer.
InitFlush ==
    /\ pc = "files" /\ job = "none" /\ launcher = "ui"
    /\ progress_file = [ kind |-> "absent", by |-> 0, n |-> 0 ]
    /\ w = [ tmp |-> [ kind |-> "absent", by |-> 0, n |-> 0 ],
             at |-> [ t \in {"worker", "ui"} |-> "idle" ],
             n |-> [ t \in {"worker", "ui"} |-> 0 ],
             seen |-> [ kind |-> "absent", by |-> 0, n |-> 0 ] ]
    /\ pw = NoWriter /\ g = Observed /\ cancel_flag = FALSE
    /\ scrape_log = EmptyLog /\ next_log_id = 1
    /\ listings = EmptyStore /\ tribunals = {} /\ alert_checked = {}

\* tmp.write_text(...): open for writing, which creates or truncates.
WriterOpens ==
    \E t \in {"worker", "ui"} :
        /\ w.at[t] = "idle" /\ w.n[t] < MaxTicks
        /\ w' = [ w EXCEPT !.tmp = [ kind |-> "empty", by |-> 0, n |-> 0 ],
                           !.at[t] = "open", !.n[t] = @ + 1 ]
        /\ UNCHANGED << pc, job, launcher, pw, files, logtab, tables, g >>

\* tmp.write_text(...): the text is written and the file closed.
WriterWrites ==
    \E t \in {"worker", "ui"} :
        /\ w.at[t] = "open"
        /\ w' = [ w EXCEPT !.tmp = [ kind |-> "record",
                                     by |-> IF t = "ui" THEN 2 ELSE 1,
                                     n |-> w.n[t] ],
                           !.at[t] = "written" ]
        /\ UNCHANGED << pc, job, launcher, pw, files, logtab, tables, g >>

\* tmp.replace(_PROGRESS_FILE): rename; FileNotFoundError when the other
\* thread has renamed the temp file away.
WriterReplaces ==
    \E t \in {"worker", "ui"} :
        /\ w.at[t] = "written"
        /\ progress_file' = IF w.tmp.kind = "absent" THEN progress_file ELSE w.tmp
        /\ w' = [ w EXCEPT !.tmp = [ kind |-> "absent", by |-> 0, n |-> 0 ],
                           !.at[t] = "idle" ]
        /\ UNCHANGED << pc, job, launcher, pw, cancel_flag, logtab, tables, g >>

\* read_progress(): _PROGRESS_FILE.read_text()
ReaderReads ==
    /\ w.seen # progress_file
    /\ w' = [ w EXCEPT !.seen = progress_file ]
    /\ UNCHANGED << pc, job, launcher, pw, files, logtab, tables, g >>

SpecFlush ==
    InitFlush /\ [][WriterOpens \/ WriterWrites \/ WriterReplaces \/ ReaderReads]_vars

\* ------------------------------------------------- the tribunal walker
\* A URL is its path with or without a query and a fragment.
MaxLinks == 2    \* links of the traversing-hearings section

\* A normalisation that only drops the fragment.
normalize_url_keeps_query(url) == [ url EXCEPT !.fragment = FALSE ]

\* tribunal_url.split("?")[0].split("#")[0]
normalize_url(url) == [ url EXCEPT !.query = FALSE, !.fragment = FALSE ]

\* The start hearing and the hrefs of its traversing-hearings section.
InitWalk ==
    /\ pc = "initial" /\ job = "none" /\ launcher = "none"
    /\ \E start \in [ path : {"h1"}, query : BOOLEAN, fragment : BOOLEAN ],
          n \in 0..MaxLinks :
          \E hrefs \in [ 1..n -> [ path : {"h1", "h2", "h3"},
                                   query : BOOLEAN, fragment : BOOLEAN ] ] :
              w = [ tribunal_url |-> start, hrefs |-> hrefs, k |-> 1,
                    visited |-> {}, fetched |-> << >> ]
    /\ pw = NoWriter /\ g = Observed
    /\ progress_file = NoFile /\ cancel_flag = FALSE
    /\ scrape_log = EmptyLog /\ next_log_id = 1
    /\ listings = EmptyStore /\ tribunals = {} /\ alert_checked = {}

\* scrape(url, _visited): return [] for a visited base_url, else add it
\* and fetch the pages of the hearing.  w.fetched lists the hearings whose
\* listings the call returned.
ScrapeHearing(url) ==
    w' = [ w EXCEPT
            !.visited = @ \cup { normalize_url(url) },
            !.fetched = IF normalize_url(url) \in w.visited THEN @
                        ELSE Append(@, url),
            !.k = IF pc = "initial" THEN 1 ELSE @ + 1 ]

\* scrape(tribunal_url): the initial call, on the start hearing.
ScrapeInitial ==
    /\ pc = "initial"
    /\ ScrapeHearing(w.tribunal_url)
    /\ pc' = "hearings"
    /\ UNCHANGED << job, launcher, pw, files, logtab, tables, g >>

\* for url in self._get_upcoming_hearing_urls(first_soup): the href
\* without its fragment is scraped with the shared visited set.
ScrapeOther ==
    /\ pc = "hearings" /\ w.k <= Len(w.hrefs)
    /\ ScrapeHearing([ w.hrefs[w.k] EXCEPT !.fragment = FALSE ])
    /\ pc' = "hearings"
    /\ UNCHANGED << job, launcher, pw, files, logtab, tables, g >>

SpecWalk == InitWalk /\ [][ScrapeInitial \/ ScrapeOther]_vars

\* -------------------------------------------------- the history walker
\* scrape_tribunal_history on a site whose pages are drawn as they are
\* fetched: the hearing-date hrefs of a page and its "Audiences
\* anterieures" href (both without fragment), NoURL when there is none.
MaxHearings == 2    \* the max_hearings argument
NoURL == [ path |-> "", query |-> FALSE ]

InitHistoryWalk ==
    /\ pc = "page" /\ job = "none" /\ launcher = "none"
    /\ \E q \in BOOLEAN :
          w = [ current_page_url |-> [ path |-> "h1", query |-> q ],
                visited_urls |-> {}, hearings_scraped |-> 0,
                hearing_dates |-> << >>, k |-> 1, previous_url |-> NoURL,
                scraped |-> << >> ]
    /\ pw = NoWriter /\ g = Observed
    /\ progress_file = NoFile /\ cancel_flag = FALSE
    /\ scrape_log = EmptyLog /\ next_log_id = 1
    /\ listings = EmptyStore /\ tribunals = {} /\ alert_checked = {}

\* One turn of the while loop up to the scrape of the current page; the
\* loop ends on its condition, on a visited URL or on a failed fetch.
FetchHearingPage ==
    /\ pc = "page"
    /\ IF \/ w.current_page_url = NoURL
          \/ w.hearings_scraped >= MaxHearings
          \/ w.current_page_url \in w.visited_urls
       THEN pc' = "returned" /\ w' = w
       ELSE \E ok \in BOOLEAN, n \in 0..MaxLinks :
              \E dates \in [ 1..n -> [ path : {"h1", "h2", "h3"}, query : BOOLEAN ] ],
                 prev \in { NoURL } \cup [ path : {"h1", "h2", "h3"}, query : BOOLEAN ] :
                  /\ pc' = IF ok THEN "hearings" ELSE "returned"
                  /\ w' = IF ok
                          THEN [ w EXCEPT
                                  !.visited_urls = @ \cup { w.current_page_url },
                                  !.hearing_dates = dates, !.k = 1,
                                  !.previous_url = prev,
                                  !.hearings_scraped = @ + 1,
                                  !.scraped = Append(@, w.current_page_url) ]
                          ELSE [ w EXCEPT
                                  !.visited_urls = @ \cup { w.current_page_url } ]
    /\ UNCHANGED << job, launcher, pw, files, logtab, tables, g >>

\* for hearing in hearing_dates: one turn.
ScrapeListedHearing ==
    /\ pc = "hearings" /\ w.k <= Len(w.hearing_dates)
    /\ w.hearings_scraped < MaxHearings
    /\ LET hearing_url == w.hearing_dates[w.k]
       IN  IF \/ hearing_url \in w.visited_urls
              \/ hearing_url.path = w.current_page_url.path
           THEN w' = [ w EXCEPT !.k = @ + 1 ]
           ELSE \E ok \in BOOLEAN :
                  w' = [ w EXCEPT
                          !.k = @ + 1,
                          !.visited_urls = @ \cup { hearing_url },
                          !.hearings_scraped = IF ok THEN @ + 1 ELSE @,
                          !.scraped = IF ok THEN Append(@, hearing_url) ELSE @ ]
    /\ UNCHANGED << pc, job, launcher, pw, files, logtab, tables, g >>

\* current_page_url = self._get_previous_hearings_url(soup)
FollowPrevious ==
    /\ pc = "hearings"
    /\ w.k > Len(w.hearing_dates) \/ w.hearings_scraped >= MaxHearings
    /\ w' = [ w EXCEPT !.current_page_url = w.previous_url ]
    /\ pc' = "page"
    /\ UNCHANGED << job, launcher, pw, files, logtab, tables, g >>

SpecHistoryWalk ==
    InitHistoryWalk /\ [][FetchHearingPage \/ ScrapeListedHearing \/ FollowPrevious]_vars

\* ---------------------------------------------------------- HTTP client
\* ScraperConfig.max_retries
max_retries == 3

\* Retry(status_forcelist=...) of _build_session
status_forcelist == {429, 500, 502, 503, 504}

\* One BaseScraper.fetch, called from a place of a workflow: the detail
\* scrapers and TribunalScraper.scrape (no handler of their own), a further
\* page of a history hearing, a navigation page of the history walk, or a
\* hearing inside scrape_tribunal_history.  responses is what the server
\* gave so far, 0 standing for a connection error.
InitFetch ==
    /\ pc = "get" /\ job = "none" /\ launcher = "none"
    /\ \E c \in {"detail", "tribunal", "history_page", "history_nav",
                 "history_hearing"} :
          w = [ caller |-> c, responses |-> << >>, retries |-> 0,
                outcome |-> "pending", errors |-> 0, idx |-> 1 ]
    /\ pw = NoWriter /\ g = Observed
    /\ progress_file = NoFile /\ cancel_flag = FALSE
    /\ scrape_log = EmptyLog /\ next_log_id = 1
    /\ listings = EmptyStore /\ tribunals = {} /\ alert_checked = {}

\* self.session.get(url) through the mounted adapter, one response at a
\* time, then response.raise_for_status(): a response of the forcelist or a
\* connection error is retried while retries remain, and raises once they
\* are used up; any other error status raises at once.
SessionGet(ww, r) ==
    LET seen == [ ww EXCEPT !.responses = Append(@, r) ]
    IN  IF r = 200 THEN [ seen EXCEPT !.outcome = "dom" ]
        ELSE IF r \in status_forcelist \cup {0}
        THEN IF ww.retries < max_retries
             THEN [ seen EXCEPT !.retries = @ + 1 ]
             ELSE [ seen EXCEPT !.outcome = "transport" ]
        ELSE [ seen EXCEPT !.outcome = "http_error" ]

\* response = self.session.get(...); response.raise_for_status()
Attempt ==
    /\ pc = "get"
    /\ \E r \in {200, 404, 0} \cup status_forcelist :
         w' = SessionGet(w, r)
    /\ pc' = CASE w'.outcome = "pending" -> "get"
               [] w'.outcome = "dom" -> "returned"
               [] OTHER -> "raised"
    /\ UNCHANGED << job, launcher, pw, files, logtab, tables, g >>

\* What the caller does with the exception: the item handler of the
\* orchestrator counts an error and goes to the next item; the handlers
\* inside scrape_tribunal_history log it and end or continue the walk, and
\* the orchestrator then ticks the tribunal as updated.
CallerHandles ==
    /\ pc = "raised"
    /\ w' = IF w.caller \in {"history_nav", "history_hearing"}
            THEN [ w EXCEPT !.idx = @ + 1 ]
            ELSE [ w EXCEPT !.errors = @ + 1, !.idx = @ + 1 ]
    /\ pc' = "next_item"
    /\ UNCHANGED << job, launcher, pw, files, logtab, tables, g >>

SpecFetch == InitFetch /\ [][Attempt \/ CallerHandles]_vars

\* -------------------------------------------------------------- parsers
\* Texts are sequences of characters; ".html" and "q=" stand as one
\* character each.  A parser returns <<"none">>, a value, or <<"raise">>.
MaxText == 4

\* float(s) for s made of digits, dots and minus signs: the digits of the
\* number when s is a decimal numeral, ValueError otherwise.
to_float(s) ==
    LET body == IF s # << >> /\ s[1] = "-" THEN Tail(s) ELSE s
    IN  IF /\ \A i \in DOMAIN body : body[i] # "-"
           /\ Cardinality({ i \in DOMAIN body : body[i] = "." }) <= 1
           /\ \E i \in DOMAIN body : body[i] \in {"1", "2"}
        THEN <<"float", s>>
        ELSE <<"raise">>

\* The longest run of characters of class that starts at i.
run(text, i, class) ==
    LET j == CHOOSE j \in (i - 1)..Len(text) :
                 /\ \A k \in i..j : text[k] \in class
                 /\ j = Len(text) \/ text[j + 1] \notin class
    IN  SubSeq(text, i, j)

\* re.search(r"([\d.,]+)\s*m[²2]", text); float(group.replace(",", "."))
parse_surface(text) ==
    LET class == {"1", "2", ".", ","}
        found(i) == LET j == i + Len(run(text, i, class))
                        k == j + Len(run(text, j, {" "}))
                    IN  /\ text[i] \in class
                        /\ k + 1 <= Len(text)
                        /\ text[k] = "m" /\ text[k + 1] = "2"
        starts == { i \in DOMAIN text : found(i) }
    IN  IF starts = {} THEN <<"none">>
        ELSE LET i == CHOOSE i \in starts : \A o \in starts : i <= o
                 group == run(text, i, class)
             IN  to_float([ n \in DOMAIN group |->
                              IF group[n] = "," THEN "." ELSE group[n] ])

\* re.search(r"q=([-\d.]+),([-\d.]+)", url); float(g1), float(g2)
parse_gps_from_maps_url(url) ==
    LET class == {"1", "2", ".", "-"}
        found(i) == LET j == i + 1 + Len(run(url, i + 1, class))
                    IN  /\ url[i] = "q="
                        /\ j > i + 1
                        /\ j + 1 <= Len(url)
                        /\ url[j] = "," /\ url[j + 1] \in class
        starts == { i \in DOMAIN url : found(i) }
    IN  IF starts = {} THEN <<"none">>
        ELSE LET i == CHOOSE i \in starts : \A o \in starts : i <= o
                 lat == run(url, i + 1, class)
                 lng == run(url, i + 2 + Len(lat), class)
             IN  IF to_float(lat)[1] = "raise" \/ to_float(lng)[1] = "raise"
                 THEN <<"raise">>
                 ELSE <<"pair", lat, lng>>

\* re.search(r"/(\d+)\.html$", url_path); int(group) or ValueError
parse_licitor_id(url_path) ==
    LET n == Len(url_path)
        starts == { i \in DOMAIN url_path :
                      /\ url_path[i] = "/" /\ i + 1 < n
                      /\ \A k \in (i + 1)..(n - 1) : url_path[k] \in {"1", "2"}
                      /\ url_path[n] = ".html" }
    IN  IF starts = {} THEN <<"raise">>
        ELSE LET i == CHOOSE i \in starts : TRUE
                 digit(c) == IF c = "1" THEN 1 ELSE 2
                 int[k \in i..(n - 1)] ==
                     IF k = i THEN 0 ELSE int[k - 1] * 10 + digit(url_path[k])
             IN  <<"int", int[n - 1]>>

\* Texts of up to MaxText characters handed to one of the parsers.
InitParse ==
    /\ pc = "parse" /\ job = "none" /\ launcher = "none"
    /\ \E p \in {"parse_surface", "parse_gps_from_maps_url",
                 "parse_licitor_id"} :
       \E n \in 0..MaxText :
       \E t \in [ 1..n -> CASE p = "parse_surface" -> {"1", ".", ",", " ", "m", "2"}
                            [] p = "parse_gps_from_maps_url" -> {"q=", "1", ".", "-", ","}
                            [] OTHER -> {"/", "1", "2", ".html", "x"} ] :
          w = [ parser |-> p, text |-> t, returned |-> <<"none">> ]
    /\ pw = NoWriter /\ g = Observed
    /\ progress_file = NoFile /\ cancel_flag = FALSE
    /\ scrape_log = EmptyLog /\ next_log_id = 1
    /\ listings = EmptyStore /\ tribunals = {} /\ alert_checked = {}

Parse ==
    /\ pc = "parse"
    /\ w' = [ w EXCEPT !.returned =
                CASE w.parser = "parse_surface" -> parse_surface(w.text)
                  [] w.parser = "parse_gps_from_maps_url" ->
                         parse_gps_from_maps_url(w.text)
                  [] OTHER -> parse_licitor_id(w.text) ]
    /\ pc' = "parsed"
    /\ UNCHANGED << job, launcher, pw, files, logtab, tables, g >>

SpecParse == InitParse /\ [][Parse]_vars

\* ------------------------------------------------- counting new listings
\* The upsert loops of run_incremental, run_full and run_history_backfill
\* on whatever the scrapes yield: any listing of the site, under either
\* tribunal, any number of times; g.before is the store the run found.
InitCount ==
    /\ pc = "upsert" /\ launcher = "cli"
    /\ job \in {"incremental", "full", "history"}
    /\ w = [Locals EXCEPT !.log_id = 1]
    /\ pw = ProgressWriter(JobType(job), 1)
    /\ progress_file = flush(pw, "running", "") /\ cancel_flag = FALSE
    /\ scrape_log = start_scrape_log(EmptyLog, 1, ScrapeType(job))
    /\ next_log_id = 2
    /\ listings \in InitStores
    /\ g = Observed @@ [before |-> listings, calls |-> 0]
    /\ tribunals = {"tj-a"} /\ alert_checked = {}

\* is_new = self.db.upsert_listing_summary(s, ...) and the counting that
\* follows it; an upsert that raises writes nothing and counts an error.
UpsertAndCount ==
    /\ pc = "upsert"
    /\ g.calls <= MaxSummaries
    /\ \E slug \in {"tj-a", "tj-b"} :
       \E s \in (IF job = "history" THEN HistorySummaries
                                    ELSE UpcomingSummaries) :
         \/ /\ listings' = upsert_listing_summary(listings, tribunals, s, slug,
                               job = "history",
                               IF job = "history" THEN s.result_date ELSE Null)
            /\ w' = IF job = "history"
                    THEN IF upsert_is_new(listings, s)
                         THEN [w EXCEPT !.new_count = @ + 1]
                         ELSE [w EXCEPT !.updated_count = @ + 1]
                    ELSE [w EXCEPT !.new_listing_ids =
                                     IF upsert_is_new(listings, s)
                                     THEN Append(@, s.licitor_id) ELSE @]
         \/ /\ listings' = listings
            /\ w' = [w EXCEPT !.errors = @ + 1]
    /\ g' = [g EXCEPT !.calls = @ + 1]
    /\ UNCHANGED << pc, job, launcher, pw, files, logtab, tribunals,
                    alert_checked >>

\* The run leaves its try body: finished, cancelled at a loop head, or on
\* an exception; the except clauses do not touch the counters.
LeaveBody ==
    /\ pc = "upsert"
    /\ \E how \in {"none", "cancelled", "fatal"} : w' = Raise(w, how)
    /\ pc' = "finally_clear"
    /\ UNCHANGED << job, launcher, pw, files, logtab, tables, g >>

SpecCount ==
    InitCount /\ [][UpsertAndCount \/ LeaveBody \/ FinallyClear \/ FinallyLog]_vars

\* --------------------------------------------- mark_error and the worker
\* mark_error() called from a dashboard session whose own thread is dead
\* (render_scraper_tab) while the progress file may belong to a worker of
\* another session or process, which writes its terminal record when its
\* workflow ends.  w.data is what mark_error read.
InitMark ==
    /\ pc = "call" /\ launcher = "ui"
    /\ job \in UIModes
    /\ \E worker \in {"alive", "gone"} :
          w = [ data |-> NoFile, worker |-> worker ]
    /\ pw = ProgressWriter(JobType(job), 1)
    /\ progress_file \in
         {NoFile, init_progress(job)} \cup
         { flush(pw, s, IF s = "error" THEN MsgBody ELSE "") :
             s \in {"running"} \cup TerminalStatus }
    /\ w.worker = "alive" => is_job_running(progress_file)
    /\ cancel_flag = FALSE /\ g = Observed
    /\ scrape_log = EmptyLog /\ next_log_id = 1
    /\ listings = EmptyStore /\ tribunals = {} /\ alert_checked = {}

\* "if not _PROGRESS_FILE.exists(): return"; data = json.loads(read_text())
MarkReads ==
    /\ pc = "call"
    /\ w' = [ w EXCEPT !.data = progress_file ]
    /\ pc' = IF progress_file.exists THEN "read" ELSE "returned"
    /\ UNCHANGED << job, launcher, pw, files, logtab, tables, g >>

\* "if data.get('status') == 'running': ...; tmp.write_text; tmp.replace"
MarkWrites ==
    /\ pc = "read"
    /\ progress_file' = IF mark_error(w.data, "thread stopped") # w.data
                        THEN mark_error(w.data, "thread stopped")
                        ELSE progress_file
    /\ pc' = "returned"
    /\ UNCHANGED << job, launcher, w, pw, cancel_flag, logtab, tables, g >>

\* The worker's pw.finish() / pw.cancel() / pw.abort(...).
WorkerEnds ==
    /\ w.worker = "alive"
    /\ \E s \in TerminalStatus :
         progress_file' = flush(pw, s, IF s = "error" THEN MsgBody ELSE "")
    /\ w' = [ w EXCEPT !.worker = "gone" ]
    /\ UNCHANGED << pc, job, launcher, pw, cancel_flag, logtab, tables, g >>

SpecMark == InitMark /\ [][MarkReads \/ MarkWrites \/ WorkerEnds]_vars

\* ------------------------------------------ new listings across the runs
\* Incremental or full runs one after the other on a store that starts
\* empty: the upsert loop with its new_listing_ids, mark_past_auctions,
\* _match_alerts, and the next run, which starts with new_listing_ids = [].
InitRuns ==
    /\ pc = "upsert" /\ launcher = "cli"
    /\ job \in {"incremental", "full"}
    /\ w = Locals /\ pw = ProgressWriter(JobType(job), 1) /\ g = Observed
    /\ progress_file = flush(pw, "running", "") /\ cancel_flag = FALSE
    /\ scrape_log = EmptyLog /\ next_log_id = 1
    /\ listings = EmptyStore /\ tribunals = {"tj-a"} /\ alert_checked = {}

\* is_new = upsert_listing_summary(s, tribunal_slug=t.slug);
\* if is_new: new_listing_ids.append(s.licitor_id)
UpsertListed ==
    /\ pc = "upsert"
    /\ \E s \in UpcomingSummaries :
         /\ listings' = upsert_listing_summary(listings, tribunals, s, "tj-a",
                                               FALSE, Null)
         /\ w' = [w EXCEPT !.new_listing_ids =
                             IF upsert_is_new(listings, s)
                             THEN Append(@, s.licitor_id) ELSE @]
    /\ UNCHANGED << pc, job, launcher, pw, files, logtab, tribunals,
                    alert_checked, g >>

\* The tribunal loop ends: its list is exhausted, or the cancel flag is
\* seen at its head and ScrapeCancelled leaves the body.
LeaveLoop ==
    /\ pc = "upsert"
    /\ \/ /\ pc' = "mark_past" /\ w' = w
       \/ /\ pc' = "except" /\ w' = Raise(w, "cancelled")
    /\ UNCHANGED << job, launcher, pw, files, logtab, tables, g >>

\* A later run of the same workflow.
NextRun ==
    /\ pc \in {"finish", "select", "except"}
    /\ w' = Locals
    /\ pc' = "upsert"
    /\ UNCHANGED << job, launcher, pw, files, logtab, tables, g >>

SpecRuns ==
    InitRuns /\ [][UpsertListed \/ LeaveLoop \/ MarkPast \/ MatchAlerts
                   \/ BodyFails \/ NextRun]_vars

\* Every run goes on, a further run always follows, and again and again a
\* run is neither cancelled nor failing: it reaches and completes its
\* alert matching.
FairRuns ==
    /\ SpecRuns
    /\ WF_vars(UpsertListed \/ LeaveLoop \/ MarkPast \/ MatchAlerts
                \/ BodyFails \/ NextRun)
    /\ SF_vars(LeaveLoop /\ pc' = "mark_past")
    /\ SF_vars(MarkPast)
    /\ SF_vars(MatchAlerts)

\* ------------------------------------------ pagination of one hearing
\* The pages of a hearing are 1..MaxPages; next[p] is the page the "Next
\* PageNav" link of p points to, 0 when p has no such link.  w.fetches[p]
\* counts the fetches of p, up to 2.
MaxPages == 3

InitPages ==
    /\ pc = "page" /\ job = "none" /\ launcher = "none"
    /\ \E next \in [ 1..MaxPages -> 0..MaxPages ] :
          w = [ next |-> next, current_url |-> 1,
                fetches |-> [ p \in 1..MaxPages |-> 0 ] ]
    /\ pw = NoWriter /\ g = Observed
    /\ progress_file = NoFile /\ cancel_flag = FALSE
    /\ scrape_log = EmptyLog /\ next_log_id = 1
    /\ listings = EmptyStore /\ tribunals = {} /\ alert_checked = {}

\* while current_url: soup = self.fetch(current_url); ...;
\* current_url = next_link["href"] if there is one, else None
FetchPage ==
    /\ pc = "page"
    /\ w.current_url # 0
    /\ w' = [ w EXCEPT !.fetches[w.current_url] = IF @ < 2 THEN @ + 1 ELSE @,
                       !.current_url = w.next[w.current_url] ]
    /\ UNCHANGED << pc, job, launcher, pw, files, logtab, tables, g >>

\* The loop runs as long as it has a page to fetch.
SpecPages == InitPages /\ [][FetchPage]_vars /\ WF_vars(FetchPage)

\* ------------------------------------------------------ result decoding
\* A <p class="Result"> is absent or has a text, a sequence of words, and
\* possibly a PriceNumber span.  A date word is <<"date", dd, mm, yyyy>>;
\* the span is "none" when missing, else its digits as a number, Null when
\* it has no digit (parse_price returns None).
ResultElements ==
    LET words == { <<"Carence">>, <<"CARENCE">>, <<"carence">>,
                   <<"Vente">>, <<"non requise">>, <<"Non Requise">>,
                   <<"date", 5, 2, 2026>> }
        texts == { << >> } \cup { <<a>> : a \in words }
                          \cup { <<a, b>> : a \in words, b \in words }
    IN  { [ present |-> FALSE, text |-> << >>, span |-> <<"none">> ] } \cup
        [ present : {TRUE}, text : texts,
          span : { <<"none">>, <<"digits", Null>>, <<"digits", 0>>,
                   <<"digits", Price>> } ]

\* text.lower(), word by word
lower_word(word) ==
    CASE word[1] \in {"Carence", "CARENCE"} -> <<"carence">>
      [] word[1] = "Non Requise" -> <<"non requise">>
      [] word[1] = "Vente" -> <<"vente">>
      [] OTHER -> word

\* A decoding that takes the status from the text without lowering it.
parse_result_status_case_sensitive(result_p) ==
    IF ~result_p.present THEN << NoStatus, Null, << >> >>
    ELSE IF \E i \in DOMAIN result_p.text : result_p.text[i] = <<"carence">>
         THEN << "carence", Null, << >> >>
    ELSE IF \E i \in DOMAIN result_p.text : result_p.text[i] = <<"non requise">>
         THEN << "non_requise", Null, << >> >>
    ELSE IF result_p.span[1] = "digits" /\ result_p.span[2] # Null
         THEN << "sold", result_p.span[2],
                 IF result_p.text # << >> /\ result_p.text[1][1] = "date"
                 THEN << result_p.text[1][4], result_p.text[1][3],
                         result_p.text[1][2] >>
                 ELSE << >> >>
    ELSE << NoStatus, Null, << >> >>

\* HistoryScraper._parse_result_status: (status, final_price, result_date),
\* the date as <<yyyy, mm, dd>>, << >> for None.
parse_result_status(result_p) ==
    IF ~result_p.present THEN << NoStatus, Null, << >> >>
    ELSE LET text_lower == [ i \in DOMAIN result_p.text |->
                               lower_word(result_p.text[i]) ]
             final_price == IF result_p.span[1] = "digits"
                            THEN result_p.span[2] ELSE Null
             result_date == IF result_p.text # << >> /\ result_p.text[1][1] = "date"
                            THEN << result_p.text[1][4], result_p.text[1][3],
                                    result_p.text[1][2] >>
                            ELSE << >>
         IN  IF \E i \in DOMAIN text_lower : text_lower[i] = <<"carence">>
             THEN << "carence", Null, << >> >>
             ELSE IF \E i \in DOMAIN text_lower : text_lower[i] = <<"non requise">>
             THEN << "non_requise", Null, << >> >>
             ELSE IF final_price # Null
             THEN << "sold", final_price, result_date >>
             ELSE << NoStatus, Null, << >> >>

InitResult ==
    /\ pc = "result" /\ job = "none" /\ launcher = "none"
    /\ \E e \in ResultElements :
          w = [ result_p |-> e, returned |-> << NoStatus, Null, << >> >> ]
    /\ pw = NoWriter /\ g = Observed
    /\ progress_file = NoFile /\ cancel_flag = FALSE
    /\ scrape_log = EmptyLog /\ next_log_id = 1
    /\ listings = EmptyStore /\ tribunals = {} /\ alert_checked = {}

\* result_status, final_price, result_date = self._parse_result_status(result_p)
ParseResult ==
    /\ pc = "result"
    /\ w' = [ w EXCEPT !.returned = parse_result_status(w.result_p) ]
    /\ pc' = "parsed"
    /\ UNCHANGED << job, launcher, pw, files, logtab, tables, g >>

SpecResult == InitResult /\ [][ParseResult]_vars

\* ------------------------------------------------- table alert_matches
MaxAlerts == 2

\* The unique index on alert_matches(alert_id, listing_id): the rows an
\* INSERT of the pair conflicts with.
alert_matches_conflict(matches, alert_id, listing_id) ==
    { k \in DOMAIN matches :
        matches[k].alert_id = alert_id /\ matches[k].listing_id = listing_id }

\* An INSERT OR REPLACE: the conflicting row gives way to a fresh one.
insert_alert_match_replace(matches, alert_id, listing_id) ==
    [ k \in DOMAIN matches |->
        IF k \in alert_matches_conflict(matches, alert_id, listing_id)
        THEN [ matches[k] EXCEPT !.is_seen = FALSE ] ELSE matches[k] ]
      \o (IF alert_matches_conflict(matches, alert_id, listing_id) = {}
          THEN << [ alert_id |-> alert_id, listing_id |-> listing_id,
                    is_seen |-> FALSE ] >>
          ELSE << >>)

\* INSERT OR IGNORE INTO alert_matches (alert_id, listing_id)
insert_alert_match(matches, alert_id, listing_id) ==
    IF alert_matches_conflict(matches, alert_id, listing_id) # {}
    THEN matches
    ELSE Append(matches, [ alert_id |-> alert_id, listing_id |-> listing_id,
                           is_seen |-> FALSE ])

\* The alerts a user can have created: a minimal price and / or a tribunal,
\* active or not.
AlertChoices ==
    { [ min_price |-> p, max_price |-> Null, department_codes |-> NoPieces,
        property_types |-> NoPieces, min_surface |-> Null,
        max_surface |-> Null, regions |-> NoPieces, tribunal_slugs |-> ts,
        is_active |-> act ] :
      p \in {Null, Price}, ts \in {NoPieces, << <<"a">> >>}, act \in BOOLEAN }

\* Listings of tribunals "a" (odd ids, no starting price) and "b".
AlertStore ==
    [ l \in LicitorIds |->
        [ mise_a_prix |-> IF l % 2 = 1 THEN Null ELSE Price,
          department_code |-> NoText, property_type |-> NoText,
          surface_m2 |-> Null, region |-> NoText,
          tribunal |-> IF l % 2 = 1 THEN <<"a">> ELSE <<"b">> ] ]

\* w.before is alert_matches as the run under way, or just ended, found it.
InitAlerts ==
    /\ pc = "alerts" /\ job = "none" /\ launcher = "none"
    /\ \E alerts \in [1..MaxAlerts -> AlertChoices] :
          w = [ alerts |-> alerts, matches |-> << >>, before |-> << >>,
                active |-> << >>, lid |-> 1, j |-> 1, ended |-> FALSE ]
    /\ pw = NoWriter /\ g = Observed
    /\ progress_file = NoFile /\ cancel_flag = FALSE
    /\ scrape_log = EmptyLog /\ next_log_id = 1
    /\ listings = AlertStore /\ tribunals = {} /\ alert_checked = {}

\* match_new_listings(licitor_ids): get_active_alerts, return if none.
BeginMatch ==
    /\ pc = "alerts"
    /\ LET active == { a \in DOMAIN w.alerts : w.alerts[a].is_active }
           key(a) == a
       IN  /\ w' = [ w EXCEPT !.active = OrderBy(active, key, MaxAlerts),
                              !.before = w.matches, !.lid = 1, !.j = 1,
                              !.ended = (active = {}) ]
           /\ pc' = IF active = {} THEN "alerts" ELSE "matching"
    /\ UNCHANGED << job, launcher, pw, files, logtab, tables, g >>

\* One turn of the inner loop: match_listing, INSERT OR IGNORE.
MatchPair ==
    /\ pc = "matching"
    /\ LET alert_id == w.active[w.j]
           last_alert == w.j = Len(w.active)
           last == last_alert /\ w.lid = MaxLicitor
       IN  /\ w' = [ w EXCEPT
                       !.matches = IF match_listing(listings[w.lid], w.alerts[alert_id])
                                   THEN insert_alert_match(@, alert_id, w.lid)
                                   ELSE @,
                       !.j = IF last_alert THEN 1 ELSE @ + 1,
                       !.lid = IF last_alert /\ ~last THEN @ + 1 ELSE @,
                       !.ended = last ]
           /\ pc' = IF last THEN "alerts" ELSE "matching"
    /\ UNCHANGED << job, launcher, pw, files, logtab, tables, g >>

\* "Marquer tout comme lu": mark_matches_seen on every unread match.
MarkMatchesSeen ==
    /\ pc = "alerts"
    /\ \E k \in DOMAIN w.matches : ~w.matches[k].is_seen
    /\ w' = [ w EXCEPT
                !.matches = [ k \in DOMAIN @ |-> [ @[k] EXCEPT !.is_seen = TRUE ] ],
                !.ended = FALSE ]
    /\ UNCHANGED << pc, job, launcher, pw, files, logtab, tables, g >>

NextAlerts == BeginMatch \/ MatchPair \/ MarkMatchesSeen

SpecAlerts == InitAlerts /\ [][NextAlerts]_vars

\* ----------------------------------------------- claims on table listings
IsUpsert == pc # "table" /\ w.call.op = "upsert"
Summary == w.call.s
IdsOf(rows) == { rows[i].licitor_id : i \in DOMAIN rows }
RowsWith(rows, lid) == { i \in DOMAIN rows : rows[i].licitor_id = lid }

\* C13: upsert_listing_summary applied twice with the same arguments leaves
\* exactly one row for the licitor_id; the second call returns false, and
\* the first returns true when the licitor_id was not stored before it.
C13_UpsertTwiceOneRow ==
    (pc = "again" /\ IsUpsert) =>
        /\ Cardinality(RowsWith(listings, Summary.licitor_id)) = 1
        /\ w.ret2 = FALSE
        /\ (Summary.licitor_id \notin IdsOf(w.before) => w.ret = TRUE)

\* The same summary upserted twice into a table that held another listing.
C13_Witness ==
    /\ pc = "again" /\ IsUpsert
    /\ w.before # << >>
    /\ Summary.licitor_id \notin IdsOf(w.before)
    /\ w.ret /\ ~w.ret2
    /\ Len(listings) = Len(w.before) + 1

\* C14: an upsert whose summary has no final_price leaves every stored
\* final_price > 0 as it was.
C14_FinalPriceKept ==
    (IsUpsert /\ Summary.final_price = Null) =>
        \A i \in DOMAIN w.before :
            w.before[i].final_price > 0 =>
                /\ w.once[i].final_price = w.before[i].final_price
                /\ listings[i].final_price = w.before[i].final_price

\* A listing stored with its final price is scraped again as "carence".
C14_Witness ==
    /\ pc = "called" /\ IsUpsert
    /\ Summary.final_price = Null /\ Summary.result_status = "carence"
    /\ \E i \in RowsWith(w.before, Summary.licitor_id) :
          w.before[i].final_price = Price /\ listings[i].final_price = Price

\* C15: in every store the workflows reach, a listing whose result_status
\* is carence or non_requise has no final_price, and a listing with a
\* final_price has result_status sold.
C15_ResultAndPriceAgree ==
    \A l \in DOMAIN listings :
        /\ listings[l].result_status \in {"carence", "non_requise"}
              => listings[l].final_price = Null
        /\ listings[l].final_price # Null
              => listings[l].result_status = "sold"

\* C16: in every store the workflows reach, a listing with status past has
\* an auction_date earlier than today or a result_status.
C16_PastHasDateOrResult ==
    \A l \in DOMAIN listings :
        listings[l].status = "past" =>
            \/ /\ listings[l].auction_date # Null
               /\ listings[l].auction_date < Today
            \/ listings[l].result_status # NoStatus

\* C17: an upsert that finds the licitor_id stored sets status to past
\* (and stores the result_status) when the summary has a result_status,
\* and leaves status as it was when the summary has none.
C17_ResultStatusSetsPast ==
    (pc = "called" /\ IsUpsert) =>
        \A i \in RowsWith(w.before, Summary.licitor_id) :
            IF Summary.result_status # NoStatus
            THEN /\ listings[i].status = "past"
                 /\ listings[i].result_status = Summary.result_status
            ELSE /\ listings[i].status = w.before[i].status
                 /\ listings[i].result_status = w.before[i].result_status

\* A stored upcoming listing is scraped with a result and becomes past.
C17_Witness ==
    /\ pc = "called" /\ IsUpsert
    /\ Summary.result_status # NoStatus
    /\ \E i \in RowsWith(w.before, Summary.licitor_id) :
          w.before[i].status = "upcoming" /\ listings[i].status = "past"

\* C18: a listing whose is_historical is true keeps it through every
\* upsert (is_historical true or false), detail update, backfill update and
\* mark_past_auctions.
C18_IsHistoricalMonotonic ==
    pc # "table" =>
        \A i \in DOMAIN w.before :
            w.before[i].is_historical =>
                w.once[i].is_historical /\ listings[i].is_historical

\* A historical listing is upserted again from a tribunal page.
C18_Witness ==
    /\ pc = "again" /\ IsUpsert /\ ~w.call.is_historical
    /\ \E i \in RowsWith(w.before, Summary.licitor_id) :
          w.before[i].is_historical /\ listings[i].is_historical

\* C19: an upsert that finds the licitor_id stored changes, in that row,
\* final_price, result_status and result_date only to the non-null values of
\* the summary, status only when the summary has a result_status and
\* is_historical only when passed true; the columns the INSERT takes from
\* the summary (url_path, property_type, department_code, city,
\* description), the starting price, tribunal, auction_date, surface and
\* detail_scraped are unchanged, and so is every other row.
C19_MergeFrame ==
    (pc = "called" /\ IsUpsert /\ Summary.licitor_id \in IdsOf(w.before)) =>
        /\ Len(listings) = Len(w.before)
        /\ \A i \in DOMAIN w.before :
              LET old == w.before[i]
                  new == listings[i]
              IN  IF old.licitor_id # Summary.licitor_id THEN new = old
                  ELSE /\ new.licitor_id = old.licitor_id
                       /\ new.shown = old.shown
                       /\ new.mise_a_prix = old.mise_a_prix
                       /\ new.tribunal = old.tribunal
                       /\ new.auction_date = old.auction_date
                       /\ new.surface_m2 = old.surface_m2
                       /\ new.detail_scraped = old.detail_scraped
                       /\ new.final_price \in {old.final_price, Summary.final_price}
                       /\ (Summary.final_price = Null
                             => new.final_price = old.final_price)
                       /\ (Summary.result_status = NoStatus
                             => /\ new.result_status = old.result_status
                                /\ new.status = old.status)
                       /\ (Summary.result_date = Null
                             => new.result_date = old.result_date)
                       /\ (~w.call.is_historical
                             => new.is_historical = old.is_historical)

\* A listing with its detail scraped is met again on a page of another
\* tribunal, shown differently and with a starting price it did not have.
C19_Witness ==
    /\ pc = "called" /\ IsUpsert
    /\ \E i \in RowsWith(w.before, Summary.licitor_id) :
          /\ w.before[i].detail_scraped
          /\ w.before[i].shown # Summary.shown
          /\ w.before[i].mise_a_prix # Summary.mise_a_prix
          /\ w.before[i].tribunal # get_tribunal_id(tribunals, w.call.tribunal_slug)
          /\ Len(w.before) > 1

\* C20: the table never holds two rows of one licitor_id, and no writer
\* removes a row: the stored licitor_ids only grow.
C20_UniqueAndNeverDeleted ==
    /\ \A lid \in LicitorIds :
          Cardinality({ i \in DOMAIN listings : listings[i].licitor_id = lid }) <= 1
    /\ pc # "table" =>
          /\ IdsOf(w.before) \subseteq IdsOf(w.once)
          /\ IdsOf(w.once) \subseteq IdsOf(listings)
          /\ Len(w.before) <= Len(w.once) /\ Len(w.once) <= Len(listings)

\* A second listing was inserted next to a stored one, then met again.
C20_Witness ==
    /\ pc = "again" /\ IsUpsert
    /\ Len(w.before) = 1 /\ Len(listings) = 2
    /\ Summary.licitor_id \notin IdsOf(w.before)

\* C21: update_listing_detail with a detail that carries no starting price
\* keeps the stored one and sets detail_scraped; no writer of the table
\* resets detail_scraped afterwards.
C21_DetailKeepsStartingPrice ==
    pc # "table" =>
        /\ \A i \in DOMAIN w.before :
              w.before[i].detail_scraped =>
                  w.once[i].detail_scraped /\ listings[i].detail_scraped
        /\ w.call.op = "detail" =>
              \A i \in RowsWith(w.before, w.call.d.licitor_id) :
                  /\ w.once[i].detail_scraped /\ listings[i].detail_scraped
                  /\ (w.call.d.mise_a_prix = Null =>
                        /\ w.once[i].mise_a_prix = w.before[i].mise_a_prix
                        /\ listings[i].mise_a_prix = w.before[i].mise_a_prix)

\* The detail page of a listing stored with its starting price, without
\* its detail, is scraped and carries no starting price.
C21_Witness ==
    /\ pc = "called" /\ w.call.op = "detail"
    /\ w.call.d.mise_a_prix = Null
    /\ \E i \in RowsWith(w.before, w.call.d.licitor_id) :
          /\ w.before[i].mise_a_prix = Price /\ ~w.before[i].detail_scraped
          /\ listings[i].mise_a_prix = Price /\ listings[i].detail_scraped

\* ------------------------------------------------ claims on alert matching
\* A criterion of the claim: a bound, with a null listing value taken as 0.
AtLeast(v, bound) == bound = Null \/ (IF v = Null THEN 0 ELSE v) >= bound
AtMost(v, bound) == bound = Null \/ (IF v = Null THEN 0 ELSE v) <= bound
Specified(pieces) == pieces # NoPieces /\ pieces # << << >> >>

\* C22: match_listing returns true iff every specified criterion holds:
\* price and surface within the bounds (a null value counting as 0), the
\* department and the region members of their sets, the lowercased
\* property type containing one of the lowercased terms.
C22_MatchIsConjunction ==
    pc = "matched" =>
        LET l == w.listing
            a == w.alert
        IN  w.result <=>
              /\ AtLeast(l.mise_a_prix, a.min_price)
              /\ AtMost(l.mise_a_prix, a.max_price)
              /\ AtLeast(l.surface_m2, a.min_surface)
              /\ AtMost(l.surface_m2, a.max_surface)
              /\ Specified(a.department_codes) =>
                    \E i \in DOMAIN a.department_codes :
                        strip(a.department_codes[i]) = l.department_code
              /\ Specified(a.regions) =>
                    \E i \in DOMAIN a.regions :
                        strip(a.regions[i]) = (IF l.region = NoText THEN << >> ELSE l.region)
              /\ Specified(a.property_types) =>
                    \E i \in DOMAIN a.property_types :
                        contains(lower(IF l.property_type = NoText THEN << >>
                                       ELSE l.property_type),
                                 lower(strip(a.property_types[i])))

\* A listing without starting price fails an alert whose only criterion is
\* a minimal price.
C22_Witness ==
    /\ pc = "matched" /\ ~w.result
    /\ w.listing.mise_a_prix = Null /\ w.alert.min_price = Price
    /\ w.alert.max_price = Null /\ w.alert.min_surface = Null
    /\ w.alert.max_surface = Null /\ w.alert.department_codes = NoPieces
    /\ w.alert.regions = NoPieces /\ w.alert.property_types = NoPieces

\* C23: every match row of an alert with tribunal_slugs pairs it with a
\* listing of one of these tribunals.
C23_MatchesWithinTribunalSlugs ==
    \A k \in DOMAIN w.matches :
        LET slugs == w.alerts[w.matches[k].alert_id].tribunal_slugs
        IN  Specified(slugs) =>
              \E i \in DOMAIN slugs :
                  strip(slugs[i]) = listings[w.matches[k].listing_id].tribunal

\* C24: alert_matches never holds two rows of one (alert, listing) pair,
\* and a run of match_new_listings leaves the rows it found as they were,
\* is_seen included.
C24_MatchingIsIdempotent ==
    /\ \A k1, k2 \in DOMAIN w.matches :
          ( /\ w.matches[k1].alert_id = w.matches[k2].alert_id
            /\ w.matches[k1].listing_id = w.matches[k2].listing_id ) => k1 = k2
    /\ (pc = "matching" \/ w.ended) =>
          /\ Len(w.before) <= Len(w.matches)
          /\ \A k \in DOMAIN w.before : w.matches[k] = w.before[k]

\* A run over the same ids ended after matches were marked as read: it
\* added nothing and the rows are still read.
C24_Witness ==
    /\ pc = "alerts" /\ w.ended
    /\ w.before # << >> /\ w.matches = w.before
    /\ \A k \in DOMAIN w.matches : w.matches[k].is_seen
    /\ Len(w.matches) >= 2

C27_OneWorkflowAtATime == w.workers <= 1

\* C26: what a reader of the progress file observes is a complete record
\* some writer flushed (or no file yet), never an empty or partial text.
C26_ReaderSeesCompleteRecord ==
    /\ w.seen.kind \in {"absent", "record"}
    /\ w.seen.kind = "record" => w.seen.n \in 1..w.n[IF w.seen.by = 2 THEN "ui" ELSE "worker"]

\* ---------------------------------------------------- claims on the walkers
\* C28: when TribunalScraper.scrape has gone through the traversing
\* hearings, the hearings it returned listings of are the start hearing and
\* the linked hearings, one per distinct path (query and fragment set
\* aside), and the visited set has one entry per distinct path.
C28_EachHearingOnce ==
    (pc = "hearings" /\ w.k > Len(w.hrefs)) =>
        LET paths == { w.tribunal_url.path } \cup
                     { w.hrefs[i].path : i \in DOMAIN w.hrefs }
        IN  /\ { w.fetched[i].path : i \in DOMAIN w.fetched } = paths
            /\ Len(w.fetched) = Cardinality(paths)
            /\ { v.path : v \in w.visited } = paths
            /\ Cardinality(w.visited) = Cardinality(paths)

\* The section links to another hearing and back to the start hearing
\* under a query string.
C28_Witness ==
    /\ pc = "hearings" /\ w.k > Len(w.hrefs)
    /\ \E i, j \in DOMAIN w.hrefs :
          /\ w.hrefs[i].path = "h1" /\ w.hrefs[i].query
          /\ w.hrefs[j].path = "h2"
    /\ Len(w.fetched) = 2

\* C29: scrape_tribunal_history scrapes at most max_hearings hearings and
\* never two URLs of one normalized hearing URL (the same path).
C29_BoundedAndNoHearingTwice ==
    /\ Len(w.scraped) <= MaxHearings
    /\ \A i, j \in DOMAIN w.scraped :
          w.scraped[i].path = w.scraped[j].path => i = j

\* C30: the decoding of a Result element is the case table: "carence" in
\* the text in any case gives (carence, null, null); else "non requise"
\* gives (non_requise, null, null); else a price gives (sold, price, the
\* leading DD-MM-YYYY as YYYY-MM-DD); no element or no price gives (null,
\* null, null).  The final_price is non-null iff the status is sold.
C30_ResultCaseTable ==
    pc = "parsed" =>
        LET e == w.result_p
            has(words) == \E i \in DOMAIN e.text : e.text[i][1] \in words
            price == IF e.span[1] = "digits" THEN e.span[2] ELSE Null
            r == w.returned
        IN  /\ (r[2] # Null) <=> (r[1] = "sold")
            /\ r = CASE ~e.present -> << NoStatus, Null, << >> >>
                     [] e.present /\ has({"Carence", "CARENCE", "carence"})
                          -> << "carence", Null, << >> >>
                     [] /\ e.present
                        /\ ~has({"Carence", "CARENCE", "carence"})
                        /\ has({"non requise", "Non Requise"})
                          -> << "non_requise", Null, << >> >>
                     [] OTHER ->
                          IF price = Null THEN << NoStatus, Null, << >> >>
                          ELSE << "sold", price,
                                  IF e.text # << >> /\ e.text[1][1] = "date"
                                  THEN << 2026, 2, 5 >> ELSE << >> >>

\* "05-02-2026 : 58 000 EUR" decoded as sold on 2026-02-05.
C30_Witness ==
    /\ pc = "parsed"
    /\ w.result_p.text = << <<"date", 5, 2, 2026>> >>
    /\ w.returned = << "sold", Price, << 2026, 2, 5 >> >>

\* C31: fetch retries on 429/500/502/503/504 and connection errors, at most
\* max_retries times; it returns the DOM of the first successful response;
\* when the retries are used up it fails with a Transport error, which the
\* calling workflow catches as a failure of the item, without attempting
\* the item again.
C31_RetryThenItemFailure ==
    LET n == Len(w.responses)
        retried(i) == w.responses[i] \in status_forcelist \cup {0}
    IN  /\ w.retries <= max_retries
        /\ w.outcome = "pending" =>
               /\ w.retries = n
               /\ \A i \in 1..n : retried(i)
        /\ w.outcome = "dom" =>
               /\ w.responses[n] = 200
               /\ \A i \in 1..(n - 1) : retried(i)
        /\ w.outcome = "transport" =>
               /\ n = max_retries + 1
               /\ \A i \in 1..n : retried(i)
        /\ (pc = "next_item" /\ w.outcome = "transport") =>
               /\ w.errors = 1
               /\ w.idx = 2

\* C32: every parser but parse_licitor_id returns a value or null on every
\* text and never raises; parse_licitor_id returns N on a path that ends in
\* /N.html and fails on every other path.
C32_ParsersTotal ==
    pc = "parsed" =>
        IF w.parser = "parse_licitor_id"
        THEN LET n == Len(w.text)
                 ends == \E i \in 1..(n - 2) :
                           /\ w.text[i] = "/" /\ w.text[n] = ".html"
                           /\ \A k \in (i + 1)..(n - 1) : w.text[k] \in {"1", "2"}
             IN  IF ends THEN w.returned[1] = "int" /\ w.returned[2] >= 1
                         ELSE w.returned[1] = "raise"
        ELSE w.returned[1] # "raise"

\* C33: initialize(), called any number of times on an existing store in
\* any state, an unfinished scrape_log row of a running or crashed job
\* included, leaves every row of every table present and unchanged.
C33_InitializeKeepsRows ==
    [][ (WorkerInitialize \/ SessionInitialize) =>
            /\ \A i \in DOMAIN scrape_log :
                   i \in DOMAIN scrape_log' /\ scrape_log'[i] = scrape_log[i]
            /\ listings' = listings
            /\ tribunals' = tribunals ]_vars

\* C34: a cancel request made after init_progress has published the
\* "running" record of a job is not cleared before the worker's next check
\* of the flag: the flag of a dashboard job goes away only in the finally
\* block of its workflow.
C34_CancelRequestNotLost ==
    [][ (launcher = "ui" /\ cancel_flag /\ ~cancel_flag')
            => pc = "finally_clear" ]_vars

\* C35: when a workflow returns or raises, whatever its outcome, the cancel
\* flag is absent; and a flag that was present before a job started has
\* been cleared when the job makes its first check, so that it does not
\* cancel that job.
C35_CancelDoesNotCarryOver ==
    /\ pc = "exit" => ~cancel_flag
    /\ (pc \in BodyPCs /\ pw.bound /\ cancel_flag) => g.cancel_signalled

\* C36: every progress record on disk has processed = updated + errors +
\* not_found and 0 <= processed <= total, hence remaining >= 0, whatever
\* totals the workflow assigned between its phases.
C36_ProcessedWithinTotal ==
    progress_file.exists =>
        /\ progress_file.processed = progress_file.updated
               + progress_file.errors + progress_file.not_found
        /\ 0 <= progress_file.processed
        /\ progress_file.processed <= progress_file.total
        /\ progress_file.remaining >= 0

\* An incremental run that has ticked its tribunal and one new listing
\* after total was assigned a second time.
C36_Witness ==
    /\ job = "incremental" /\ w.loop = "newdetail"
    /\ progress_file.exists /\ progress_file.status = "running"
    /\ progress_file.processed = 2 /\ progress_file.total >= 3

\* C37: the listings_new an incremental, full or history run writes to its
\* scrape_log row is the number of listing rows the run inserted, however
\* often a licitor_id came up and however the run ended.
C37_NewCountsInsertedRows ==
    pc = "exit" =>
        /\ RowExists /\ Row.finished
        /\ Row.listings_new =
               Cardinality(DOMAIN listings) - Cardinality(DOMAIN g.before)

\* A run that met the same listing twice, inserted it once, and was
\* cancelled.
C37_Witness ==
    /\ pc = "exit" /\ w.exc = "cancelled"
    /\ g.calls = 2 /\ w.errors = 0
    /\ DOMAIN g.before = {} /\ Cardinality(DOMAIN listings) = 1
    /\ Row.listings_new = 1

\* C38: mark_error changes the progress record only when its status is
\* "running": a finished, cancelled or error record, or an absent file, is
\* left as it is, also when the worker writes its terminal record while
\* mark_error runs.
C38_MarkErrorOnlyWhenRunning ==
    [][ (MarkWrites /\ ~(progress_file.exists /\ progress_file.status = "running"))
            => progress_file' = progress_file ]_vars

\* C39: every listing an incremental or full run has inserted is in the
\* end handed to the alert matching, in that run or in a later one, also
\* when the run is cancelled or fails between the insert and its
\* alert-matching step.
C39_NewListingsReachAlerts ==
    \A l \in LicitorIds : (l \in DOMAIN listings) ~> (l \in alert_checked)

\* C40: on every finite site the pagination loop of TribunalScraper.scrape
\* ends, also when a Next link points to a page of the hearing that was
\* already fetched, and no page is fetched twice.
C40_PaginationEnds ==
    /\ [](\A p \in 1..MaxPages : w.fetches[p] <= 1)
    /\ <>(w.current_url = 0)

====
